---- MODULE Spec2Model ----
(***************************************************************************)
(* Model of marimo-lsp's session lifecycle: the session registry           *)
(* (LspSessionManager), the session (LspSession) with its listener thread, *)
(* the kernel subprocess wrapper (PopenProcessLike) and the LSP handlers   *)
(* that drive them (run, notebookDocument/didClose, shutdown); and of the  *)
(* reactive dependency graph manager (NotebookGraphManager) with its LRU   *)
(* cache of cell-document URIs (LRUCache).                                 *)
(*                                                                         *)
(* Handlers run on the event loop and contain no await between their       *)
(* statements, so each handler is one atomic action.  The listener thread  *)
(* of every session and every kernel subprocess run concurrently with the  *)
(* handlers and take their own steps.                                      *)
(***************************************************************************)
EXTENDS Integers, Sequences, FiniteSets, TLC

\* ------------------------------------------------------------------ bounds
\* Number of LspSession constructions attempted (object ids double as pids).
MaxSessions == 2
\* Number of messages the kernels put on their stream channels, in total.
MaxMsgs == 2
\* Number of commands put on one session's control channel.
MaxControl == 3
\* Messages that a peer has sent and that no caller has taken yet.
MaxInFlight == 2
\* Number of DAP requests handed to handle_debug_adapter_request.
MaxDapRequests == 2
\* Number of children spawned that ignore SIGTERM.
MaxStubborn == 1
\* Number of close() calls made on one session object.
MaxCloseCalls == 2
\* Largest capacity an LRUCache under test is constructed with.
MaxCapacity == 2

\* ------------------------------------------------------------------ inputs
\* A notebook URI is the sequence of its tokens, scheme first, so that
\* str.startswith is a prefix test and not an equality of opaque names.
UntitledUri == <<"untitled:", "Untitled-1">>
FileUri == <<"file:", "///", "untitled:", "test.py">>
URIs == {UntitledUri, FileUri}
NoUri == <<>>

Executables == {"python_a", "python_b"}
NoExe == "none"

\* What the child does after it is spawned (launch_kernel).
LaunchOutcomes == {"ready", "exit_nonzero", "bad_ready"}

Ids == 1..MaxSessions

\* --------------------------------------------------------------- variables
VARIABLES
    sessions,      \* LspSessionManager._sessions: dict in insertion order
    instantiated,  \* LspSessionManager._instantiated: uri -> flag or absent
    nextId,        \* number of session constructions attempted so far
    sess,          \* the LspSession objects, by id
    proc,          \* the kernel subprocesses, by pid (= session id)
    control,       \* per session: everything put on the control channel
    stream,        \* per session: the host-side stream queue
    sent,          \* per session: number of messages the kernel has put
    delivered,     \* per session: messages passed to consumer.notify
    listener,      \* per session: position of the listener thread
    lastCall,      \* the handler that has just returned, its argument, outcome
    lastOps,       \* the primitive operations that handler performed
    lru,           \* an LRUCache object
    lruAccess,     \* its keys in the order of their last access, oldest first
    lruCall,       \* the LRUCache method that has just returned
    gm,            \* a NotebookGraphManager object
    workspace,     \* pygls workspace: the cell documents that are open
    gmCall,        \* the graph manager operation that has just returned
    nbDoc,         \* the notebook document the client has opened
    app,           \* the cells LspAppFileManager registered for the kernel
    launch,        \* the call of launch_kernel: its position and locals
    child,         \* the subprocess that launch_kernel spawned
    inputChan,     \* the input channel of a ZeroMqQueueManager pair
    conn,          \* a receiving ZMQTypedConnection and a recv() call on it
    dap            \* debug_adapter: its globals and the notifications it sent

sessionVars == <<sessions, instantiated, nextId, sess, proc, control, stream,
                 sent, delivered, listener, lastCall, lastOps>>
lruVars == <<lru, lruAccess, lruCall>>
graphVars == <<gm, workspace, gmCall>>
notebookVars == <<nbDoc, app>>
launchVars == <<launch, child>>
transportVars == <<inputChan, conn>>
dapVars == <<dap>>

vars == <<sessions, instantiated, nextId, sess, proc, control, stream, sent,
          delivered, listener, lastCall, lastOps, lru, lruAccess, lruCall,
          gm, workspace, gmCall, nbDoc, app,
          launch, child, inputChan, conn, dap>>

\* ----------------------------------------------------------------- LRUCache
\* Python's None.
None == "None"

\* Keys and values of the LRUCache under test.
LRUKeys == {"a", "b", "c"}
LRUValues == {"v1", "v2"}

\* An LRUCache is its OrderedDict, as the sequence of its items in dict
\* order (oldest first), and its capacity.
CacheHas(c, key) == \E i \in 1..Len(c.cache) : c.cache[i].key = key
CacheValue(c, key) ==
    c.cache[CHOOSE i \in 1..Len(c.cache) : c.cache[i].key = key].value
CacheKeys(c) == {c.cache[i].key : i \in 1..Len(c.cache)}
\* OrderedDict.pop(key)
CachePop(cache, key) == SelectSeq(cache, LAMBDA e : e.key # key)

LRUCache_init(capacity) == [cache |-> <<>>, capacity |-> capacity]

\* get without the move to the end.
LRUCache_get_in_place(c, key) ==
    IF ~CacheHas(c, key)
    THEN [self |-> c, ret |-> None]
    ELSE [self |-> c, ret |-> CacheValue(c, key)]

\* LRUCache.get: the cache after the call and the value returned.
LRUCache_get(c, key) ==
    IF ~CacheHas(c, key)
    THEN [self |-> c, ret |-> None]
    ELSE LET value == CacheValue(c, key)
         IN  [self |-> [c EXCEPT !.cache =
                          Append(CachePop(@, key),
                                 [key |-> key, value |-> value])],
              ret |-> value]

\* put that makes room whenever the cache is full.
LRUCache_put_evicting(c, key, value) ==
    LET kept == IF Len(c.cache) >= c.capacity
                THEN CachePop(Tail(c.cache), key)
                ELSE CachePop(c.cache, key)
    IN  [c EXCEPT !.cache = Append(kept, [key |-> key, value |-> value])]

\* LRUCache.put; popitem(last=False) removes the first item.
LRUCache_put(c, key, value) ==
    LET kept == IF CacheHas(c, key) THEN CachePop(c.cache, key)
                ELSE IF Len(c.cache) >= c.capacity THEN Tail(c.cache)
                ELSE c.cache
    IN  [c EXCEPT !.cache = Append(kept, [key |-> key, value |-> value])]

\* No LRUCache under test has been constructed yet.
NoCache == [cache |-> <<>>, capacity |-> 0]
NoLruCall ==
    [op |-> "none", key |-> None, value |-> None, ret |-> None, hit |-> FALSE]

\* ----------------------------------------------------- cells and sources
\* Capacity of the URI-to-CellId cache of a graph manager.
UriCacheCapacity == 1000

\* URIs of cell documents.  Stable ids are strings the client chooses: one
\* is the URI of a cell document, so that the comparison
\* CellId_t(cell.document) == cell_id of the diagnostics can succeed, the
\* other is the fragment of a URI, as the NotebookCell of tests/test_server.py
\* chooses it.
CellUris == {"file:///nb.py#c1", "file:///nb.py#c2"}
CellIds == {"file:///nb.py#c1", "c2"}

\* A source text is the sequence of its tokens.
Names == {"x", "y"}
Numbers == {"1"}
SrcX1 == <<"x", "=", "1">>
SrcYX == <<"y", "=", "x", "+", "1">>
SrcBad == <<"x", "=", "(">>
EmptySource == <<>>
Sources == {SrcX1, SrcYX, SrcBad}
\* dict.get(cell_id) of a cell that has no source stored.
NoSource == <<None>>

\* A notebook document, as the URIs of its cells' documents in cell order.
Notebooks ==
    {<<>>} \cup {<<u>> : u \in CellUris}
           \cup {<<u, v>> : u, v \in CellUris}

\* compile_cell: an assignment (NAME =)+ ATOM (+ ATOM)*, or nothing at all.
\* StoreNodes: the positions of the assignment targets, the ast.Name nodes
\* with a Store context.
IsAtom(t) == t \in Names \cup Numbers
StoreNodes(source) ==
    {i \in 1..(Len(source) - 1) : i % 2 = 1 /\ source[i + 1] = "="}
WellFormed(source) ==
    \/ source = EmptySource
    \/ /\ Len(source) >= 3
       /\ Len(source) % 2 = 1
       /\ 1 \in StoreNodes(source)
       /\ \A i \in StoreNodes(source) :
             source[i] \in Names /\ (i > 1 => (i - 2) \in StoreNodes(source))
       /\ \A i \in 1..Len(source) :
             \/ i \in StoreNodes(source)
             \/ (i - 1) \in StoreNodes(source)
             \/ IF i % 2 = 1 THEN IsAtom(source[i]) ELSE source[i] = "+"

\* No CellImpl: the dict has no entry, or compile_cell raised SyntaxError.
NoCompiled == [ok |-> FALSE, code |-> NoSource, defs |-> {}, refs |-> {}]

compile_cell(source) ==
    IF ~WellFormed(source) THEN NoCompiled
    ELSE [ok |-> TRUE, code |-> source,
          defs |-> {source[i] : i \in StoreNodes(source)},
          refs |-> {source[i] : i \in (1..Len(source)) \ StoreNodes(source)}
                      \cap Names]

\* ------------------------------------------------------------ DirectedGraph
\* cells: cell id -> CellImpl; definitions: name -> defining cells;
\* edges: <<parent, child>> when child reads a name that parent defines.
DirectedGraph_init ==
    [cells |-> [c \in CellIds |-> NoCompiled],
     definitions |-> [n \in Names |-> {}],
     edges |-> {}]

InGraph(g, cell_id) == g.cells[cell_id].ok
GraphCells(g) == {c \in CellIds : InGraph(g, c)}

register_cell(g, cell_id, cell) ==
    LET others == GraphCells(g) \ {cell_id}
    IN  [cells |-> [g.cells EXCEPT ![cell_id] = cell],
         definitions |->
             [n \in Names |-> IF n \in cell.defs
                              THEN g.definitions[n] \cup {cell_id}
                              ELSE g.definitions[n]],
         edges |-> g.edges
             \cup {<<o, cell_id>> : o \in
                      {o \in others : g.cells[o].defs \cap cell.refs # {}}}
             \cup {<<cell_id, o>> : o \in
                      {o \in others : g.cells[o].refs \cap cell.defs # {}}}
             \cup (IF cell.defs \cap cell.refs # {}
                   THEN {<<cell_id, cell_id>>} ELSE {})]

delete_cell(g, cell_id) ==
    [cells |-> [g.cells EXCEPT ![cell_id] = NoCompiled],
     definitions |-> [n \in Names |-> g.definitions[n] \ {cell_id}],
     edges |-> {e \in g.edges : e[1] # cell_id /\ e[2] # cell_id}]

\* ----------------------------------------------------- NotebookGraphManager
\* _cached_diagnostics is None.
NoDiagnostics == [filled |-> FALSE, value |-> {}]

NotebookGraphManager_init ==
    [cell_sources |-> [c \in CellIds |-> NoSource],
     compiled_cells |-> [c \in CellIds |-> NoCompiled],
     graph |-> DirectedGraph_init,
     stale |-> FALSE,
     uri_to_cell_id_cache |-> LRUCache_init(UriCacheCapacity),
     cached_diagnostics |-> NoDiagnostics]

\* update_cell that recompiles whatever the stored source is.
update_cell_always(m, cell_id, source) ==
    LET m1 == [m EXCEPT !.cell_sources[cell_id] = source]
        m2 == IF InGraph(m1.graph, cell_id)
              THEN [m1 EXCEPT !.graph = delete_cell(@, cell_id)]
              ELSE m1
        compiled == compile_cell(source)
        m3 == IF compiled.ok
              THEN [m2 EXCEPT !.graph = register_cell(@, cell_id, compiled),
                              !.compiled_cells[cell_id] = compiled]
              ELSE [m2 EXCEPT !.compiled_cells[cell_id] = NoCompiled]
    IN  [m3 EXCEPT !.stale = TRUE, !.cached_diagnostics = NoDiagnostics]

\* update_cell that keeps the compiled artefact when the source does not
\* compile.
update_cell_keep_artefact(m, cell_id, source) ==
    IF m.cell_sources[cell_id] = source THEN m
    ELSE
    LET m1 == [m EXCEPT !.cell_sources[cell_id] = source]
        m2 == IF InGraph(m1.graph, cell_id)
              THEN [m1 EXCEPT !.graph = delete_cell(@, cell_id)]
              ELSE m1
        compiled == compile_cell(source)
        m3 == IF compiled.ok
              THEN [m2 EXCEPT !.graph = register_cell(@, cell_id, compiled),
                              !.compiled_cells[cell_id] = compiled]
              ELSE m2
    IN  [m3 EXCEPT !.stale = TRUE, !.cached_diagnostics = NoDiagnostics]

update_cell(m, cell_id, source) ==
    IF m.cell_sources[cell_id] = source THEN m
    ELSE
    LET m1 == [m EXCEPT !.cell_sources[cell_id] = source]
        m2 == IF InGraph(m1.graph, cell_id)
              THEN [m1 EXCEPT !.graph = delete_cell(@, cell_id)]
              ELSE m1
        compiled == compile_cell(source)
        m3 == IF compiled.ok
              THEN [m2 EXCEPT !.graph = register_cell(@, cell_id, compiled),
                              !.compiled_cells[cell_id] = compiled]
              ELSE [m2 EXCEPT !.compiled_cells[cell_id] = NoCompiled]
    IN  [m3 EXCEPT !.stale = TRUE, !.cached_diagnostics = NoDiagnostics]

\* remove_cell that leaves the dependency graph as it is.
remove_cell_keep_graph(m, cell_id) ==
    [m EXCEPT !.cell_sources[cell_id] = NoSource,
              !.compiled_cells[cell_id] = NoCompiled,
              !.stale = TRUE, !.cached_diagnostics = NoDiagnostics]

remove_cell(m, cell_id) ==
    LET m1 == [m EXCEPT !.cell_sources[cell_id] = NoSource,
                        !.compiled_cells[cell_id] = NoCompiled]
        m2 == IF InGraph(m1.graph, cell_id)
              THEN [m1 EXCEPT !.graph = delete_cell(@, cell_id)]
              ELSE m1
    IN  [m2 EXCEPT !.stale = TRUE, !.cached_diagnostics = NoDiagnostics]

get_graph(m) == m.graph
get_compiled_cell(m, cell_id) == m.compiled_cells[cell_id]
\* is_stale that reports every graph as changed.
is_stale_always(m) == TRUE
is_stale(m) == m.stale
mark_clean(m) == [m EXCEPT !.stale = FALSE]

\* -------------------------------------------------------------- diagnostics
\* get_cell_display_name: "cell-<index>" of the first notebook cell whose
\* document equals the cell id, the cell id itself if there is none.
get_cell_display_name(cell_id, notebook) ==
    LET found == {i \in 1..Len(notebook) : notebook[i] = cell_id}
    IN  IF found = {} THEN <<cell_id>>
        ELSE <<"cell-", CHOOSE i \in found : \A j \in found : i <= j>>

\* The document URI of the first notebook cell that equals the cell id.
CellUriOf(cell_id, notebook) ==
    LET found == {i \in 1..Len(notebook) : notebook[i] = cell_id}
    IN  IF found = {} THEN None
        ELSE notebook[CHOOSE i \in found : \A j \in found : i <= j]

\* graph.cycles for graphs of at most two cells: a self-loop, or the two
\* edges of a pair of cells that read each other's definitions.
Cycles(g) ==
    {<<e>> : e \in {e \in g.edges : e[1] = e[2]}}
    \cup {<<e, <<e[2], e[1]>> >> :
            e \in {e \in g.edges : e[1] # e[2] /\ <<e[2], e[1]>> \in g.edges}}

format_cycle_description(cycle, notebook) ==
    <<get_cell_display_name(cycle[1][1], notebook)>>
    \o [i \in 1..Len(cycle) |-> get_cell_display_name(cycle[i][2], notebook)]

create_cycle_diagnostics(notebook, g) ==
    LET cells_in_cycles ==
            {c \in CellIds : \E cycle \in Cycles(g) :
                \E i \in 1..Len(cycle) : c \in {cycle[i][1], cycle[i][2]}}
        relevant(c) ==
            {cycle \in Cycles(g) :
                \E i \in 1..Len(cycle) : c \in {cycle[i][1], cycle[i][2]}}
    IN  {[uri |-> CellUriOf(c, notebook), code |-> "cycle-error",
          range |-> <<0, 0, 0, 0>>,
          variable |-> None,
          cycle |-> format_cycle_description(
                        CHOOSE cycle \in relevant(c) : TRUE, notebook),
          others |-> {}] :
            c \in {c \in cells_in_cycles : CellUriOf(c, notebook) # None}}

\* find_variable_definitions: line (1-based) and columns of every ast.Name
\* store node of the variable.  A source is one line; its tokens are one
\* character wide and one space apart, so token i starts at column 2(i-1).
find_variable_definitions(compiled_cell, var_name) ==
    {[name |-> var_name, line |-> 1,
      col_start |-> 2 * (i - 1), col_end |-> 2 * (i - 1) + 1] :
        i \in {i \in StoreNodes(compiled_cell.code) :
                  compiled_cell.code[i] = var_name}}

\* One diagnostic for every position of every defining cell that has a
\* compiled artefact and a notebook cell whose document equals its id.
create_multiple_definition_diagnostics(notebook, m) ==
    LET g == get_graph(m)
        multiply_defined == {n \in Names : Cardinality(g.definitions[n]) > 1}
        reported ==
            {p \in multiply_defined \X CellIds :
                /\ p[2] \in g.definitions[p[1]]
                /\ get_compiled_cell(m, p[2]).ok
                /\ CellUriOf(p[2], notebook) # None}
        diag_at(p, pos) ==
            [uri |-> CellUriOf(p[2], notebook), code |-> "multiple-definition",
             range |-> <<pos.line - 1, pos.col_start,
                         pos.line - 1, pos.col_end>>,
             variable |-> p[1],
             cycle |-> <<>>,
             others |-> {get_cell_display_name(o, notebook) :
                            o \in g.definitions[p[1]] \ {p[2]}}]
    IN  UNION {{diag_at(p, pos) :
                  pos \in find_variable_definitions(
                              get_compiled_cell(m, p[2]), p[1])} :
               p \in reported}

collect_diagnostics(notebook, m) ==
    create_cycle_diagnostics(notebook, get_graph(m))
    \cup create_multiple_definition_diagnostics(notebook, m)

\* get_diagnostics that also marks the manager clean.
get_diagnostics_cleaning(m, notebook) ==
    LET m1 == IF ~m.cached_diagnostics.filled
              THEN [m EXCEPT !.cached_diagnostics =
                       [filled |-> TRUE,
                        value |-> collect_diagnostics(notebook, m)]]
              ELSE m
    IN  [self |-> mark_clean(m1), ret |-> m1.cached_diagnostics.value]

\* get_diagnostics: the manager after the call and the value returned.
get_diagnostics(m, notebook) ==
    LET m1 == IF ~m.cached_diagnostics.filled
              THEN [m EXCEPT !.cached_diagnostics =
                       [filled |-> TRUE,
                        value |-> collect_diagnostics(notebook, m)]]
              ELSE m
    IN  [self |-> m1, ret |-> m1.cached_diagnostics.value]

\* ------------------------------------------------- notebook change events
\* A NotebookCell of an event: its document URI and its metadata's stableId.
MappingCells ==
    {[document |-> u, stableId |-> i] : u \in CellUris, i \in CellIds \cup {None}}
\* A TextDocumentItem (did_open), or a text_content entry with the text the
\* document has once the entry's changes are applied.
TextItems == {[uri |-> u, text |-> t] : u \in CellUris, t \in Sources}

AtMostOne(S) == {<<>>} \cup {<<x>> : x \in S}
Parts == {"data", "array", "did_close", "did_open", "text_content"}

\* Events with at most one entry in a part and at most two parts filled,
\* the cell metadata arriving either in data or in the structure splice.
Changes ==
    {ch \in [data : AtMostOne(MappingCells), array : AtMostOne(MappingCells),
             did_close : AtMostOne(CellUris), did_open : AtMostOne(TextItems),
             text_content : AtMostOne(TextItems)] :
        /\ \E k1, k2 \in Parts : \A k \in Parts \ {k1, k2} : ch[k] = <<>>
        /\ ch.data = <<>> \/ ch.array = <<>>}

NoChange ==
    [data |-> <<>>, array |-> <<>>, did_close |-> <<>>, did_open |-> <<>>,
     text_content |-> <<>>]

get_stable_id(cell) == cell.stableId

RECURSIVE PersistCells(_, _)
PersistCells(m, cells) ==
    IF cells = <<>> THEN m
    ELSE LET cell_id == get_stable_id(Head(cells))
             m1 == IF cell_id # None
                   THEN [m EXCEPT !.uri_to_cell_id_cache =
                            LRUCache_put(@, Head(cells).document, cell_id)]
                   ELSE m
         IN  PersistCells(m1, Tail(cells))

persist_mapping(m, change) ==
    PersistCells(PersistCells(m, change.data), change.array)

\* _remove_cell_document that leaves the cell where it is.
remove_cell_document_skip(m, uri) ==
    [m EXCEPT !.uri_to_cell_id_cache = LRUCache_get(@, uri).self]

remove_cell_document(m, uri) ==
    LET r == LRUCache_get(m.uri_to_cell_id_cache, uri)
        m1 == [m EXCEPT !.uri_to_cell_id_cache = r.self]
    IN  IF r.ret = None THEN m1 ELSE remove_cell(m1, r.ret)

\* _update_cell_document that marks the graph stale when it skips a cell.
update_cell_document_marking(m, uri, source) ==
    LET r == LRUCache_get(m.uri_to_cell_id_cache, uri)
        m1 == [m EXCEPT !.uri_to_cell_id_cache = r.self]
    IN  IF r.ret = None
        THEN [m1 EXCEPT !.stale = TRUE, !.cached_diagnostics = NoDiagnostics]
        ELSE update_cell(m1, r.ret, source)

update_cell_document(m, uri, source) ==
    LET r == LRUCache_get(m.uri_to_cell_id_cache, uri)
        m1 == [m EXCEPT !.uri_to_cell_id_cache = r.self]
    IN  IF r.ret = None THEN m1 ELSE update_cell(m1, r.ret, source)

RECURSIVE RemoveAll(_, _)
RemoveAll(m, closed) ==
    IF closed = <<>> THEN m
    ELSE RemoveAll(remove_cell_document(m, Head(closed)), Tail(closed))

RECURSIVE OpenAll(_, _)
OpenAll(m, opened) ==
    IF opened = <<>> THEN m
    ELSE OpenAll(update_cell_document(m, Head(opened).uri, Head(opened).text),
                 Tail(opened))

\* ws: the URIs workspace.text_documents has a document for.
RECURSIVE UpdateAll(_, _, _)
UpdateAll(m, ws, text_content) ==
    IF text_content = <<>> THEN m
    ELSE LET item == Head(text_content)
             m1 == IF item.uri \in ws
                   THEN update_cell_document(m, item.uri, item.text)
                   ELSE m
         IN  UpdateAll(m1, ws, Tail(text_content))

\* The same parts, with the opened cells applied before the closed ones.
sync_opens_first(m, ws, change) ==
    UpdateAll(RemoveAll(OpenAll(persist_mapping(m, change), change.did_open),
                        change.did_close),
              ws, change.text_content)

sync_with_notebook_document_change_event(m, ws, change) ==
    UpdateAll(OpenAll(RemoveAll(persist_mapping(m, change), change.did_close),
                      change.did_open),
              ws, change.text_content)

\* pygls Workspace.update_notebook_document, run before the server's own
\* handler: the opened cell documents are added, the closed ones removed.
update_notebook_document(ws, change) ==
    (ws \cup {change.did_open[i].uri : i \in 1..Len(change.did_open)})
    \ {change.did_close[i] : i \in 1..Len(change.did_close)}

NoGmCall ==
    [name |-> "none", cell |-> None, source |-> NoSource, notebook |-> <<>>,
     change |-> NoChange, ret |-> {}, published |-> 0]

\* ------------------------------------------------------ notebook documents
\* lsp.NotebookCellKind
CellKinds == {"Code", "Markup"}

SrcXY == <<"x", "=", "y">>
SrcXX1 == <<"x", "=", "x", "=", "1">>
\* The texts of the cells of a notebook document.
NotebookSources == {SrcX1, SrcXX1, SrcXY, SrcYX, SrcBad}

\* A notebook cell with the text of its document: the client chooses the
\* kind, the document URI and the stableId of the metadata (or none).
NotebookCells ==
    [kind : CellKinds, document : CellUris, stableId : CellIds \cup {None},
     source : NotebookSources]

\* Notebook documents of at most two cells; document URIs are unique, and
\* so are the stable ids that are present.
NotebookDocuments ==
    {<<>>} \cup {<<c>> : c \in NotebookCells}
    \cup {p \in NotebookCells \X NotebookCells :
             /\ p[2].document # p[1].document
             /\ p[2].stableId = None \/ p[2].stableId # p[1].stableId}

\* notebook.cells[i].document, in cell order.
Documents(cells) == [i \in 1..Len(cells) |-> cells[i].document]

\* LspAppFileManager._load_app_from_notebook_document: the cells registered
\* with the cell manager of the app, in order.
load_app_from_notebook_document(cells) ==
    LET code == SelectSeq(cells, LAMBDA cell : cell.kind = "Code")
    IN  [i \in 1..Len(code) |->
            [cell_id |-> code[i].document, code |-> code[i].source]]

NoApp == [loaded |-> FALSE, cells |-> <<>>]

\* ------------------------------------------------- launch_kernel, the child
\* What a child writes as its first line of stdout; readline() at end of
\* file gives the empty string.
ReadyLines == {"KERNEL_READY\n", " KERNEL_READY \n"}
StdoutLines == ReadyLines \cup {"ERROR\n"}
Eof == ""
\* line.decode("utf-8").strip()
strip(line) ==
    CASE line \in ReadyLines -> "KERNEL_READY"
      [] line = "ERROR\n" -> "ERROR"
      [] OTHER -> ""

\* A JSON document on stdin, as the keys of its top-level object.
ConnectionInfoJson ==
    {"control", "ui_element", "completion", "input", "win32_interrupt"}
KernelArgsJson ==
    {"connection_info", "configs", "app_metadata", "user_config", "log_level",
     "profile_path"}
\* ipc.KernelArgs.encode_json: one document, the connection info inside it.
encode_json(args) == <<args>>
\* decode_connection_info: json.loads, then data[key] for every field.
decode_connection_info(line) == ConnectionInfoJson \subseteq line
\* decode_kernel_args: msgspec decodes the fields of types.KernelArgs.
decode_kernel_args(line) ==
    {"configs", "app_metadata", "user_config", "log_level"} \subseteq line
\* sys.stdin.readline() number n of a child whose stdin holds these lines and
\* is closed: the line, or the empty document at end of file.
stdin_readline(stdin, n) == IF n <= Len(stdin) THEN stdin[n] ELSE {}
\* kernel_server.main up to the connection of its queues: both lines decode.
kernel_server_main(stdin) ==
    /\ decode_connection_info(stdin_readline(stdin, 1))
    /\ decode_kernel_args(stdin_readline(stdin, 2))

NoChild ==
    [state |-> "none", stubborn |-> FALSE, exit_code |-> 0,
     stdin |-> <<>>, stdin_closed |-> FALSE, stdout |-> <<>>,
     stderr |-> <<>>, stderr_open |-> FALSE, main |-> "none"]

\* No exception: msg is the text of the exception raised, with the ready
\* line and the stderr that a RuntimeError of launch_kernel quotes.
NoError == [type |-> "none", text |-> "", ready_line |-> "", stderr |-> <<>>]

NoLaunch ==
    [pc |-> "idle", ready_line |-> "", polled |-> FALSE, exit_code |-> 0,
     stderr |-> <<>>, msg |-> NoError]

\* subprocess.Popen.terminate(): SIGTERM to a child that has not exited; a
\* child that ignores SIGTERM keeps running.  The call does not wait.
process_terminate(c) ==
    IF c.state = "running" /\ ~c.stubborn
    THEN [c EXCEPT !.state = "sigterm"] ELSE c

\* ------------------------------------------------------------ IPC transport
\* queue.Queue(maxsize=1), PushQueue(conn.input, maxsize=1)
InputMaxsize == 1
InputLines == {"line1", "line2"}
Messages == {"m1", "m2"}

\* The input channel once create_host and from_connection_info have run and
\* the host has started its receiver: the host's input socket is PULL and
\* its input_queue a queue.Queue, the kernel's input socket is PUSH and its
\* input_queue a PushQueue on that socket.
\*   host_queue:  the host-side queue.Queue(maxsize=1)
\*   wire:        what was sent on the PUSH socket and not yet received
\*   kernel_read: the lines that input_queue.get() has returned to the kernel
\*   kernel_get:  outcome of the kernel's last input_queue.get()
NoInputChannel ==
    [host_queue |-> <<>>, wire |-> <<>>, kernel_read |-> <<>>,
     kernel_get |-> "none", closed |-> FALSE]

\* A ZMQTypedConnection with is_sender = False, and the call of recv() on it.
\*   socket: messages published and not yet received by _receive_loop
NoConnection ==
    [closed |-> FALSE, stop_event |-> FALSE, socket |-> <<>>,
     recv_buffer |-> <<>>, pc |-> "idle", ret |-> None]

\* ---------------------------------------------------------- debug adapter
\* The sessionId of a DAP request names a debug session of the editor.
DapSessionIds == {"dbg_a", "dbg_b"}
\* The commands the handler treats itself, the one it transforms, and one
\* ("threads") standing for every command it relays unchanged.
DapCommands == {"initialize", "launch", "disconnect", "setBreakpoints", "threads"}
\* What reaches the socket first after a message was sent to debugpy: a
\* response, an event (the protocol lets an adapter send events at any
\* time), nothing before the timeout, or a failure of the socket.
DebugpyReplies == {"success", "failure", "output", "initialized", "nothing", "broken"}

\* The module debug_adapter before it is imported: DEBUGPY_AVAILABLE not yet
\* bound, _debug_session_manager empty.
\*   debug_sessions: per sessionId "absent", "created" (is_connected False)
\*                   or "connected"
\*   requests:       the requests handle_debug_adapter_request was called with
\*   out:            the marimo/dap notifications, in the order sent
\*   sleeping:       per sessionId, handlers suspended in asyncio.sleep(0.1)
NoDebugAdapter ==
    [imported |-> FALSE, DEBUGPY_AVAILABLE |-> FALSE,
     debug_sessions |-> [d \in DapSessionIds |-> "absent"],
     requests |-> <<>>, out |-> <<>>,
     sleeping |-> [d \in DapSessionIds |-> 0]]

NoSession ==
    [uri |-> NoUri, executable |-> NoExe, constructed |-> FALSE,
     closed |-> FALSE, hasStream |-> FALSE, queuesCreated |-> FALSE,
     queuesClosed |-> FALSE,
     closeCalls |-> 0, kernelCloses |-> 0, queueCloses |-> 0,
     detaches |-> 0, instantiations |-> 0]

\* What a handler returns when it returns None; a record, as the dicts are
\* that the other handlers return.
ReturnsNone == [none |-> None]

NoCall ==
    [name |-> "none", uri |-> NoUri, raised |-> FALSE, ret |-> ReturnsNone]

NoProc == [state |-> "none", stubborn |-> FALSE, terminateReturned |-> FALSE]

Init ==
    /\ sessions = <<>>
    /\ instantiated = [u \in URIs |-> "absent"]
    /\ nextId = 0
    /\ sess = [s \in Ids |-> NoSession]
    /\ proc = [p \in Ids |-> NoProc]
    /\ control = [s \in Ids |-> <<>>]
    /\ stream = [s \in Ids |-> <<>>]
    /\ sent = [s \in Ids |-> 0]
    /\ delivered = [s \in Ids |-> <<>>]
    /\ listener = [s \in Ids |-> [pc |-> "none", msg |-> 0]]
    /\ lastCall = NoCall
    /\ lastOps = <<>>
    /\ lru = NoCache
    /\ lruAccess = <<>>
    /\ lruCall = NoLruCall
    /\ gm = NotebookGraphManager_init
    /\ workspace = {}
    /\ gmCall = NoGmCall
    /\ nbDoc = <<>>
    /\ app = NoApp
    /\ launch = NoLaunch
    /\ child = NoChild
    /\ inputChan = NoInputChannel
    /\ conn = NoConnection
    /\ dap = NoDebugAdapter

\* The part of the state the handlers work on, as one value, so that the
\* statements of a handler compose in program order.
Heap ==
    [sessions |-> sessions, instantiated |-> instantiated, nextId |-> nextId,
     sess |-> sess, proc |-> proc, control |-> control, listener |-> listener,
     ops |-> <<>>, ret |-> 0, raised |-> FALSE]

CommitCall(h, call) ==
    /\ sessions' = h.sessions
    /\ instantiated' = h.instantiated
    /\ nextId' = h.nextId
    /\ sess' = h.sess
    /\ proc' = h.proc
    /\ control' = h.control
    /\ listener' = h.listener
    /\ lastCall' = call
    /\ lastOps' = h.ops
    /\ UNCHANGED <<lruVars, graphVars, notebookVars, launchVars, transportVars, dapVars>>

\* A handler that returns None has returned (or raised).
Commit(h, name, uri) ==
    CommitCall(h, [name |-> name, uri |-> uri, raised |-> h.raised,
                   ret |-> ReturnsNone])

\* A handler has returned h.ret.
CommitReturn(h, name, uri) ==
    CommitCall(h, [name |-> name, uri |-> uri, raised |-> h.raised,
                   ret |-> h.ret])

\* A step of a thread or of a subprocess: no handler has just returned.
Background ==
    /\ lastCall' = NoCall
    /\ lastOps' = <<>>
    /\ UNCHANGED <<lruVars, graphVars, notebookVars, launchVars, transportVars, dapVars>>

Op(h, name, id) == [h EXCEPT !.ops = Append(@, <<name, id>>)]

\* ------------------------------------------------- dict helpers (_sessions)
\* dict.get(key): the session id stored under uri, 0 for None.
RECURSIVE DictGet(_, _)
DictGet(d, uri) ==
    IF d = <<>> THEN 0
    ELSE IF Head(d).uri = uri THEN Head(d).sid
    ELSE DictGet(Tail(d), uri)

\* dict.pop(key, None): the dict without the key, order of the rest kept.
RECURSIVE DictPop(_, _)
DictPop(d, uri) ==
    IF d = <<>> THEN <<>>
    ELSE IF Head(d).uri = uri THEN DictPop(Tail(d), uri)
    ELSE <<Head(d)>> \o DictPop(Tail(d), uri)

\* dict[key] = value: replaces in place, or appends a new key at the end.
DictSet(d, uri, sid) ==
    IF \E i \in 1..Len(d) : d[i].uri = uri
    THEN [i \in 1..Len(d) |->
            IF d[i].uri = uri THEN [uri |-> uri, sid |-> sid] ELSE d[i]]
    ELSE Append(d, [uri |-> uri, sid |-> sid])

\* list(dict.keys())
DictKeys(d) == [i \in 1..Len(d) |-> d[i].uri]

\* str.startswith
StartsWith(str, prefix) ==
    /\ Len(str) >= Len(prefix)
    /\ SubSeq(str, 1, Len(prefix)) = prefix

\* --------------------------------------------------------- kernel_manager.py
\* subprocess.Popen.terminate(): nothing if the child has exited, else
\* SIGTERM; a child that ignores SIGTERM keeps running, one that honours
\* it exits some time later (ProcessDies).  The call does not wait.
PopenTerminate(h, p) ==
    IF h.proc[p].state = "running" /\ ~h.proc[p].stubborn
    THEN [h EXCEPT !.proc[p].state = "sigterm"]
    ELSE h

\* PopenProcessLike.is_alive: inner.poll() is None
is_alive(h, p) == h.proc[p].state \in {"running", "sigterm"}

\* PopenProcessLike.terminate
terminate(h, p) ==
    LET h1 == PopenTerminate(Op(h, "terminate", p), p)
    IN  [h1 EXCEPT !.proc[p].terminateReturned = TRUE]

\* launch_kernel: spawn the child and wait for its readiness line.
launch_kernel(h, p, outcome, stub) ==
    LET spawned == [Op(h, "launch", p) EXCEPT
                        !.proc[p] = [NoProc EXCEPT !.state = "running",
                                                   !.stubborn = stub]]
    IN  CASE outcome = "ready" -> spawned
          [] outcome = "exit_nonzero" ->
                [spawned EXCEPT !.proc[p] = [NoProc EXCEPT !.state = "exited"],
                                !.raised = TRUE]
          [] OTHER ->
                [PopenTerminate(spawned, p) EXCEPT !.raised = TRUE]

\* LspKernelManager.start_kernel
start_kernel(h, p, outcome, stub) == launch_kernel(h, p, outcome, stub)

\* KernelManager.close_kernel of the marimo library, which LspKernelManager
\* inherits: terminate the kernel task if it is alive.
close_kernel(h, s) ==
    LET h1 == [h EXCEPT !.sess[s].kernelCloses = @ + 1]
    IN  IF is_alive(h1, s) THEN terminate(h1, s) ELSE h1

\* ---------------------------------------------------------- queue_manager.py
\* close_queues: stop the receiver thread and close the connection.  The
\* sockets are gone: what was pushed on the control channel is dropped and
\* the host-side stream queue receives nothing afterwards.
close_queues(h, s) ==
    [Op(h, "close_queues", s) EXCEPT !.sess[s].queueCloses = @ + 1,
                                     !.sess[s].queuesClosed = TRUE,
                                     !.control[s] = <<>>]

\* ----------------------------------------------------------------- session.py
\* consumer.on_detach()
on_detach(h, s) ==
    [Op(h, "on_detach", s) EXCEPT !.sess[s].detaches = @ + 1]

\* LspSession._start_message_listener: listen() returns at once when the
\* queue manager has no stream queue.
start_message_listener(h, s) ==
    [h EXCEPT !.listener[s] =
        [pc |-> IF h.sess[s].hasStream THEN "check" ELSE "done", msg |-> 0]]

\* ipc.QueueManager.create(): the queue manager of a session that is about
\* to be constructed, its sockets bound.
QueueManager_create(h, s) == [h EXCEPT !.sess[s].queuesCreated = TRUE]

\* LspSession.__init__
LspSession_init(h, s, uri, exe, outcome, stub, hasStream) ==
    LET h1 == [h EXCEPT !.sess[s] =
                   [@ EXCEPT !.uri = uri, !.executable = exe,
                             !.hasStream = hasStream]]
        h2 == start_kernel(h1, s, outcome, stub)
    IN  IF h2.raised THEN [h2 EXCEPT !.sess[s] = h.sess[s]]
        ELSE start_message_listener(
                 [h2 EXCEPT !.sess[s].constructed = TRUE], s)

\* LspSession.put_control_request
put_control_request(h, s, request) ==
    [Op(h, "put", s) EXCEPT !.control[s] = Append(@, request)]

\* LspSession.instantiate
instantiate(h, s) ==
    LET h1 == [Op(h, "instantiate", s) EXCEPT !.sess[s].instantiations = @ + 1]
    IN  put_control_request(h1, s, "create_notebook")

\* close() without the `if self._closed: return` guard.
close_unguarded(h, s) ==
    LET called == [h EXCEPT !.sess[s].closeCalls = @ + 1]
        h1 == [Op(called, "close", s) EXCEPT !.sess[s].closed = TRUE]
        h2 == close_kernel(h1, s)
        h3 == close_queues(h2, s)
    IN  on_detach(h3, s)

\* LspSession.close
close(h, s) ==
    LET called == [h EXCEPT !.sess[s].closeCalls = @ + 1]
    IN  IF called.sess[s].closed THEN called
        ELSE LET h1 == [Op(called, "close", s) EXCEPT !.sess[s].closed = TRUE]
                 h2 == close_kernel(h1, s)
                 h3 == close_queues(h2, s)
             IN  on_detach(h3, s)

\* --------------------------------------------------------- session_manager.py
\* LspSessionManager.get_session
get_session(h, uri) == DictGet(h.sessions, uri)

\* add_session that resets the instantiated flag of every registered notebook.
add_session_resetting(h, uri, s) ==
    LET h1 == [Op(h, "insert", s) EXCEPT !.sessions = DictSet(@, uri, s)]
    IN  [h1 EXCEPT !.instantiated =
            [u \in URIs |-> IF DictGet(h1.sessions, u) # 0 THEN "false"
                            ELSE h.instantiated[u]]]

\* LspSessionManager.add_session
add_session(h, uri, s) ==
    [Op(h, "insert", s) EXCEPT !.sessions = DictSet(@, uri, s),
                               !.instantiated[uri] = "false"]

\* close_session that leaves the instantiated flag of the notebook behind.
close_session_keeping_flag(h, uri) ==
    LET s == DictGet(h.sessions, uri)
        h1 == [h EXCEPT !.sessions = DictPop(@, uri)]
    IN  IF s # 0 THEN close(h1, s) ELSE h1

\* LspSessionManager.close_session
close_session(h, uri) ==
    LET s == DictGet(h.sessions, uri)
        h1 == [h EXCEPT !.sessions = DictPop(@, uri)]
        h2 == IF s # 0 THEN close(h1, s) ELSE h1
    IN  [h2 EXCEPT !.instantiated[uri] = "absent"]

\* create_session that forgets to close the session it replaces.
create_session_no_close(h, uri, exe, outcome, stub, hasStream) ==
    LET s == h.nextId + 1
        h2 == LspSession_init(QueueManager_create([h EXCEPT !.nextId = s], s),
                              s, uri, exe, outcome, stub, hasStream)
    IN  IF h2.raised THEN h2
        ELSE [add_session(h2, uri, s) EXCEPT !.ret = s]

\* create_session that registers the session before it starts the kernel.
create_session_registering(h, uri, exe, outcome, stub, hasStream) ==
    LET h1 == IF DictGet(h.sessions, uri) # 0 THEN close_session(h, uri) ELSE h
        s == h1.nextId + 1
        h2 == LspSession_init(QueueManager_create([h1 EXCEPT !.nextId = s], s),
                              s, uri, exe, outcome, stub, hasStream)
    IN  [add_session(h2, uri, s) EXCEPT !.ret = s]

\* LspSessionManager.create_session
create_session(h, uri, exe, outcome, stub, hasStream) ==
    LET h1 == IF DictGet(h.sessions, uri) # 0 THEN close_session(h, uri) ELSE h
        s == h1.nextId + 1
        h2 == LspSession_init(QueueManager_create([h1 EXCEPT !.nextId = s], s),
                              s, uri, exe, outcome, stub, hasStream)
    IN  IF h2.raised THEN h2
        ELSE [add_session(h2, uri, s) EXCEPT !.ret = s]

\* LspSessionManager.shutdown: close_session for every key, in dict order.
RECURSIVE CloseAll(_, _)
CloseAll(h, uris) ==
    IF uris = <<>> THEN h
    ELSE CloseAll(close_session(h, Head(uris)), Tail(uris))

shutdown(h) == CloseAll(h, DictKeys(h.sessions))

\* LspSession.close on a session whose close_kernel() raises: the exception
\* leaves close() after _closed was set.
close_raising(h, s) ==
    LET called == [h EXCEPT !.sess[s].closeCalls = @ + 1]
    IN  IF called.sess[s].closed THEN called
        ELSE [Op(called, "close", s) EXCEPT !.sess[s].closed = TRUE,
                                            !.sess[s].kernelCloses = @ + 1,
                                            !.raised = TRUE]

\* close_session without the try/except around session.close().
close_session_uncaught(h, uri, failing) ==
    LET s == DictGet(h.sessions, uri)
        h1 == [h EXCEPT !.sessions = DictPop(@, uri)]
        h2 == IF s = 0 THEN h1
              ELSE IF s \in failing THEN close_raising(h1, s) ELSE close(h1, s)
    IN  IF h2.raised THEN h2 ELSE [h2 EXCEPT !.instantiated[uri] = "absent"]

\* LspSessionManager.close_session when close() raises for the sessions in
\* failing: the exception is caught and logged.
close_session_catching(h, uri, failing) ==
    LET s == DictGet(h.sessions, uri)
        h1 == [h EXCEPT !.sessions = DictPop(@, uri)]
        h2 == IF s = 0 THEN h1
              ELSE IF s \in failing
              THEN [Op(close_raising(h1, s), "log_exception", s)
                      EXCEPT !.raised = FALSE]
              ELSE close(h1, s)
    IN  [h2 EXCEPT !.instantiated[uri] = "absent"]

\* LspSessionManager.shutdown when close() raises for the sessions in
\* failing; an exception that leaves close_session ends the loop.
RECURSIVE CloseAllCatching(_, _, _)
CloseAllCatching(h, uris, failing) ==
    IF uris = <<>> \/ h.raised THEN h
    ELSE CloseAllCatching(close_session_catching(h, Head(uris), failing),
                          Tail(uris), failing)

shutdown_catching(h, failing) ==
    CloseAllCatching(h, DictKeys(h.sessions), failing)

\* LspSessionManager.is_instantiated
is_instantiated(h, uri) == h.instantiated[uri] = "true"

\* set_instantiated that stores nothing.
set_instantiated_dropped(h, uri, flag) == h

\* LspSessionManager.set_instantiated
set_instantiated(h, uri, flag) ==
    [h EXCEPT !.instantiated[uri] = IF flag THEN "true" ELSE "false"]

\* --------------------------------------------------------- api.py / server.py
\* run that looks for a session only, whatever its interpreter.
NeedsNewSessionAnyExe(h, uri, exe) == get_session(h, uri) = 0

\* run: whether the handler has to create a session.
NeedsNewSession(h, uri, exe) ==
    \/ get_session(h, uri) = 0
    \/ h.sess[get_session(h, uri)].executable # exe

\* run, after the session has been found or created.
RunWithSession(h, uri, s) ==
    LET h1 == IF ~is_instantiated(h, uri)
              THEN set_instantiated(instantiate(h, s), uri, TRUE)
              ELSE h
    IN  put_control_request(h1, s, "execute")

run(h, uri, exe, outcome, stub, hasStream) ==
    IF NeedsNewSession(h, uri, exe)
    THEN LET h1 == create_session(h, uri, exe, outcome, stub, hasStream)
         IN  IF h1.raised THEN h1 ELSE RunWithSession(h1, uri, h1.ret)
    ELSE RunWithSession(h, uri, get_session(h, uri))

\* did_close that looks for "untitled:" anywhere in the URI.
did_close_contains(h, uri) ==
    IF \E i \in 1..Len(uri) : uri[i] = "untitled:"
    THEN close_session(h, uri) ELSE h

\* did_close (notebookDocument/didClose)
did_close(h, uri) ==
    IF StartsWith(uri, <<"untitled:">>) THEN close_session(h, uri) ELSE h

\* sync_app_with_workspace: refresh the notebook view of a session.
sync_app_with_workspace(h, s) == Op(h, "sync", s)

\* did_open that creates the session of a notebook that has none.
did_open_creating(h, uri) ==
    IF get_session(h, uri) # 0
    THEN sync_app_with_workspace(h, get_session(h, uri))
    ELSE create_session(h, uri, "python_a", "ready", FALSE, TRUE)

\* did_open (notebookDocument/didOpen)
did_open(h, uri) ==
    IF get_session(h, uri) # 0
    THEN sync_app_with_workspace(h, get_session(h, uri))
    ELSE h

\* did_change (notebookDocument/didChange)
did_change(h, uri) ==
    IF get_session(h, uri) # 0
    THEN sync_app_with_workspace(h, get_session(h, uri))
    ELSE h

\* did_save (notebookDocument/didSave)
did_save(h, uri) ==
    IF get_session(h, uri) # 0
    THEN sync_app_with_workspace(h, get_session(h, uri))
    ELSE h

\* What the package manager and the config manager of a session answer.
PackageLists == {<<>>, <<"numpy">>}
DependencyTrees == {None, "tree"}
Configs == {{}, {"display"}}
\* {}: the empty dict
EmptyDict == {}

\* LspSession.try_interrupt
try_interrupt(h, s) == Op(h, "interrupt", s)

\* interrupt
interrupt(h, uri) ==
    LET session == get_session(h, uri)
    IN  IF session # 0 THEN try_interrupt(h, session) ELSE h

\* get_package_list without the test for a session.
get_package_list_unguarded(h, uri, installed, packages) ==
    IF ~installed THEN [h EXCEPT !.ret = [packages |-> <<>>]]
    ELSE [h EXCEPT !.ret = [packages |-> packages]]

\* get_package_list; installed: package_manager.is_manager_installed(),
\* packages: package_manager.list_packages() as builtins.
get_package_list(h, uri, installed, packages) ==
    IF get_session(h, uri) = 0 THEN [h EXCEPT !.ret = [packages |-> <<>>]]
    ELSE IF ~installed THEN [h EXCEPT !.ret = [packages |-> <<>>]]
    ELSE [h EXCEPT !.ret = [packages |-> packages]]

\* get_dependency_tree; tree: package_manager.dependency_tree()
get_dependency_tree(h, uri, tree) ==
    IF get_session(h, uri) = 0 THEN [h EXCEPT !.ret = [tree |-> None]]
    ELSE [h EXCEPT !.ret = [tree |-> tree]]

\* get_configuration; config: session.config_manager.get_config()
get_configuration(h, uri, config) ==
    IF get_session(h, uri) = 0 THEN [h EXCEPT !.ret = [config |-> EmptyDict]]
    ELSE [h EXCEPT !.ret = [config |-> config]]

\* update_configuration; saved: save_config returns (it raises otherwise).
update_configuration(h, uri, config, saved) ==
    LET session == get_session(h, uri)
    IN  IF session = 0
        THEN [h EXCEPT !.ret = [success |-> FALSE,
                                error |-> "No session found"]]
        ELSE IF ~saved
        THEN [h EXCEPT !.ret = [success |-> FALSE, error |-> "str(e)"]]
        ELSE [put_control_request(h, session, "set_user_config")
                EXCEPT !.ret = [success |-> TRUE, config |-> config]]

\* ------------------------------------------------------------------- actions
Run(uri, exe, outcome, stub, hasStream) ==
    /\ IF NeedsNewSession(Heap, uri, exe)
       THEN /\ nextId < MaxSessions
            /\ stub => Cardinality({p \in Ids : proc[p].stubborn}) < MaxStubborn
       ELSE Len(control[get_session(Heap, uri)]) < MaxControl
    /\ Commit(run(Heap, uri, exe, outcome, stub, hasStream), "run", uri)
    /\ UNCHANGED <<stream, sent, delivered>>

DidClose(uri) ==
    /\ Commit(did_close(Heap, uri), "did_close", uri)
    /\ UNCHANGED <<stream, sent, delivered>>

Shutdown ==
    /\ Commit(shutdown(Heap), "shutdown", NoUri)
    /\ UNCHANGED <<stream, sent, delivered>>

RECURSIVE Sum(_, _)
Sum(f, S) ==
    IF S = {} THEN 0
    ELSE LET x == CHOOSE y \in S : TRUE IN f[x] + Sum(f, S \ {x})

SentTotal == Sum(sent, Ids)

\* The kernel subprocess puts a message on its stream channel; the host's
\* receiver moves it into the stream queue until close_queues stops it.
KernelPut(s) ==
    /\ sess[s].constructed /\ sess[s].hasStream /\ ~sess[s].queuesClosed
    /\ is_alive(Heap, s)
    /\ SentTotal < MaxMsgs
    /\ sent' = [sent EXCEPT ![s] = @ + 1]
    /\ stream' = [stream EXCEPT ![s] = Append(@, sent[s] + 1)]
    /\ Background
    /\ UNCHANGED <<sessions, instantiated, nextId, sess, proc, control,
                   delivered, listener>>

\* A child that was sent SIGTERM and honours it exits.
ProcessDies(p) ==
    /\ proc[p].state = "sigterm"
    /\ proc' = [proc EXCEPT ![p].state = "exited"]
    /\ Background
    /\ UNCHANGED <<sessions, instantiated, nextId, sess, control, stream,
                   sent, delivered, listener>>

\* A running child exits on its own.
ProcessExits(p) ==
    /\ proc[p].state = "running"
    /\ proc' = [proc EXCEPT ![p].state = "exited"]
    /\ Background
    /\ UNCHANGED <<sessions, instantiated, nextId, sess, control, stream,
                   sent, delivered, listener>>

\* listen() with `while True`.
LoopConditionAlways(s) == TRUE

\* listen(): the loop condition `while not self._closed`
LoopCondition(s) == ~sess[s].closed

\* listen(): evaluate the loop condition
ListenCheck(s) ==
    /\ listener[s].pc = "check"
    /\ listener' = [listener EXCEPT ![s].pc =
                        IF LoopCondition(s) THEN "get" ELSE "done"]
    /\ Background
    /\ UNCHANGED <<sessions, instantiated, nextId, sess, proc, control,
                   stream, sent, delivered>>

\* listen() taking the newest message of the queue instead of the oldest.
ListenGetNewest(s) ==
    /\ listener[s].pc = "get"
    /\ IF stream[s] # <<>>
       THEN /\ listener' = [listener EXCEPT ![s] =
                                [pc |-> "notify",
                                 msg |-> stream[s][Len(stream[s])]]]
            /\ stream' = [stream EXCEPT ![s] = SubSeq(@, 1, Len(@) - 1)]
       ELSE /\ listener' = [listener EXCEPT ![s].pc = "check"]
            /\ UNCHANGED stream
    /\ Background
    /\ UNCHANGED <<sessions, instantiated, nextId, sess, proc, control,
                   sent, delivered>>

\* listen(): stream_queue.get(timeout=0.1) returns the head of the queue, or
\* raises queue.Empty after the timeout and the loop continues.
ListenGet(s) ==
    /\ listener[s].pc = "get"
    /\ IF stream[s] # <<>>
       THEN /\ listener' = [listener EXCEPT ![s] =
                                [pc |-> "notify", msg |-> Head(stream[s])]]
            /\ stream' = [stream EXCEPT ![s] = Tail(@)]
       ELSE /\ listener' = [listener EXCEPT ![s].pc = "check"]
            /\ UNCHANGED stream
    /\ Background
    /\ UNCHANGED <<sessions, instantiated, nextId, sess, proc, control,
                   sent, delivered>>

\* listen(): self._consumer.notify(msg)
ListenNotify(s) ==
    /\ listener[s].pc = "notify"
    /\ delivered' = [delivered EXCEPT ![s] = Append(@, listener[s].msg)]
    /\ listener' = [listener EXCEPT ![s] = [pc |-> "check", msg |-> 0]]
    /\ Background
    /\ UNCHANGED <<sessions, instantiated, nextId, sess, proc, control,
                   stream, sent>>

Listen(s) == ListenCheck(s) \/ ListenGet(s) \/ ListenNotify(s)

\* The event loop and the subprocesses.  The handlers never read what the
\* listener threads write (stream, delivered, listener), so the threads'
\* steps are left to NextSession.
Next ==
    \/ \E uri \in URIs, exe \in Executables, outcome \in LaunchOutcomes,
          stub \in BOOLEAN : Run(uri, exe, outcome, stub, TRUE)
    \/ \E uri \in URIs : DidClose(uri)
    \/ Shutdown
    \/ \E p \in Ids : ProcessDies(p)
    \/ \E p \in Ids : ProcessExits(p)

Spec == Init /\ [][Next]_vars

\* A caller that holds a session object calls close() on it directly.
SessionClose(s) ==
    /\ sess[s].constructed
    /\ sess[s].closeCalls < MaxCloseCalls
    /\ Commit(close(Heap, s), "close", sess[s].uri)
    /\ UNCHANGED <<stream, sent, delivered>>

\* One session object from its construction to the exit of its listener
\* thread: the session, its listener thread and its kernel run concurrently.
\* Sessions share no state (each has its own queue manager, consumer and
\* thread), so the first session constructed stands for any of them.
NextSession ==
    \/ \E exe \in Executables, outcome \in LaunchOutcomes,
          stub \in BOOLEAN, hasStream \in BOOLEAN :
            /\ NeedsNewSession(Heap, UntitledUri, exe) => nextId = 0
            /\ Run(UntitledUri, exe, outcome, stub, hasStream)
    \/ DidClose(UntitledUri)
    \/ Shutdown
    \/ \E s \in Ids : SessionClose(s)
    \/ \E s \in Ids : KernelPut(s)
    \/ \E p \in Ids : ProcessDies(p)
    \/ \E p \in Ids : ProcessExits(p)
    \/ \E s \in Ids : ListenCheck(s)
    \/ \E s \in Ids : ListenGet(s)
    \/ \E s \in Ids : ListenNotify(s)

SpecSession == Init /\ [][NextSession]_vars

\* The listener threads are scheduled by the operating system and each
\* step of listen() takes bounded time (get has a 0.1 s timeout).
FairSpecSession == SpecSession /\ \A s \in Ids : WF_vars(Listen(s))

\* ------------------------------------------- commands that query a session
Interrupt(uri) ==
    /\ Commit(interrupt(Heap, uri), "interrupt", uri)
    /\ UNCHANGED <<stream, sent, delivered>>

GetPackageList(uri, installed, packages) ==
    /\ CommitReturn(get_package_list(Heap, uri, installed, packages),
                    "get_package_list", uri)
    /\ UNCHANGED <<stream, sent, delivered>>

GetDependencyTree(uri, tree) ==
    /\ CommitReturn(get_dependency_tree(Heap, uri, tree),
                    "get_dependency_tree", uri)
    /\ UNCHANGED <<stream, sent, delivered>>

GetConfiguration(uri, config) ==
    /\ CommitReturn(get_configuration(Heap, uri, config),
                    "get_configuration", uri)
    /\ UNCHANGED <<stream, sent, delivered>>

UpdateConfiguration(uri, config, saved) ==
    /\ get_session(Heap, uri) # 0 =>
          Len(control[get_session(Heap, uri)]) < MaxControl
    /\ CommitReturn(update_configuration(Heap, uri, config, saved),
                    "update_configuration", uri)
    /\ UNCHANGED <<stream, sent, delivered>>

\* The server with the commands that query or configure a session.
NextApi ==
    \/ \E uri \in URIs, exe \in Executables, outcome \in LaunchOutcomes :
          Run(uri, exe, outcome, FALSE, TRUE)
    \/ \E uri \in URIs : DidClose(uri)
    \/ \E uri \in URIs : Interrupt(uri)
    \/ \E uri \in URIs, installed \in BOOLEAN, packages \in PackageLists :
          GetPackageList(uri, installed, packages)
    \/ \E uri \in URIs, tree \in DependencyTrees : GetDependencyTree(uri, tree)
    \/ \E uri \in URIs, config \in Configs : GetConfiguration(uri, config)
    \/ \E uri \in URIs, config \in Configs, saved \in BOOLEAN :
          UpdateConfiguration(uri, config, saved)

SpecApi == Init /\ [][NextApi]_vars

\* ------------------------------------- the notebook handlers and run
DidOpen(uri) ==
    /\ Commit(did_open(Heap, uri), "did_open", uri)
    /\ UNCHANGED <<stream, sent, delivered>>

DidChange(uri) ==
    /\ Commit(did_change(Heap, uri), "did_change", uri)
    /\ UNCHANGED <<stream, sent, delivered>>

DidSave(uri) ==
    /\ Commit(did_save(Heap, uri), "did_save", uri)
    /\ UNCHANGED <<stream, sent, delivered>>

\* shutdown while close() raises for some of the sessions.
ShutdownCatching(failing) ==
    /\ \E s \in failing : DictGet(sessions, sess[s].uri) = s
    /\ Commit(shutdown_catching(Heap, failing), "shutdown", NoUri)
    /\ UNCHANGED <<stream, sent, delivered>>

\* The server as the editor drives it: the notebook document handlers, the
\* run command and shutdown.
NextServer ==
    \/ \E uri \in URIs, exe \in Executables, outcome \in LaunchOutcomes :
          Run(uri, exe, outcome, FALSE, TRUE)
    \/ \E uri \in URIs : DidOpen(uri)
    \/ \E uri \in URIs : DidChange(uri)
    \/ \E uri \in URIs : DidSave(uri)
    \/ \E uri \in URIs : DidClose(uri)
    \/ Shutdown
    \/ \E failing \in SUBSET Ids : ShutdownCatching(failing)

SpecServer == Init /\ [][NextServer]_vars

\* ------------------------------------------------------------ debug adapter
\* DAP messages as the dicts the module builds and forwards. `success` of a
\* message without that key is FALSE, as response.get("success") is falsy.
create_success_response(command) ==
    [type |-> "response", command |-> command, success |-> TRUE, event |-> None]

create_error_response(command) ==
    [type |-> "response", command |-> command, success |-> FALSE, event |-> None]

DapEvent(event) ==
    [type |-> "event", command |-> None, success |-> FALSE, event |-> event]

\* _forward_dap_message returning None.
NoReply ==
    [type |-> "none", command |-> None, success |-> FALSE, event |-> None]

\* ls.protocol.notify("marimo/dap", {"sessionId": ..., "message": ...})
notify(d, session_id, message) ==
    [d EXCEPT !.out = Append(@, [sessionId |-> session_id, message |-> message])]

send_error_response(d, session_id, command) ==
    notify(d, session_id, create_error_response(command))

\* _forward_dap_message: sends the bytes and returns the first message read
\* from the socket, whatever it is; None when nothing arrives or the socket
\* fails, and then the session is marked as not connected.
forward_dap_message(d, command, session_id, reply) ==
    IF d.debug_sessions[session_id] # "connected"
    THEN [self |-> d, ret |-> NoReply]
    ELSE CASE reply = "broken" ->
                  [self |-> [d EXCEPT !.debug_sessions[session_id] = "created"],
                   ret |-> NoReply]
           [] reply = "nothing" -> [self |-> d, ret |-> NoReply]
           [] reply = "success" ->
                  [self |-> d, ret |-> create_success_response(command)]
           [] reply = "failure" ->
                  [self |-> d, ret |-> create_error_response(command)]
           [] OTHER -> [self |-> d, ret |-> DapEvent(reply)]

relay_dap_message(d, command, session_id, reply) ==
    IF ~d.DEBUGPY_AVAILABLE
    THEN [self |-> d, ret |-> create_error_response(command)]
    ELSE IF d.debug_sessions[session_id] = "absent"
    THEN [self |-> d, ret |-> create_error_response(command)]
    ELSE IF d.debug_sessions[session_id] # "connected"
    THEN [self |-> d, ret |-> create_error_response(command)]
    ELSE LET r == forward_dap_message(d, command, session_id, reply)
         IN  IF r.ret = NoReply
             THEN [self |-> r.self, ret |-> create_error_response(command)]
             ELSE r

\* _handle_initialize: debugpy.configure() raises or not.
handle_initialize(d, command, configured) ==
    IF ~d.DEBUGPY_AVAILABLE THEN create_error_response(command)
    ELSE IF configured THEN create_success_response(command)
    ELSE create_error_response(command)

\* DebugSessionManager.create_debug_session: a session of the same id is
\* cleaned up and replaced by a fresh one, not connected.
create_debug_session(d, session_id) ==
    [d EXCEPT !.debug_sessions[session_id] = "created"]

\* DebugSessionManager.remove_debug_session
remove_debug_session(d, session_id) ==
    [d EXCEPT !.debug_sessions[session_id] = "absent"]

\* _handle_launch: _start_debugpy_server returns True or False.
handle_launch(d, command, session_id, started) ==
    IF ~d.DEBUGPY_AVAILABLE
    THEN [self |-> d, ret |-> create_error_response(command)]
    ELSE LET d1 == create_debug_session(d, session_id)
         IN  IF started
             THEN [self |-> d1, ret |-> create_success_response(command)]
             ELSE [self |-> d1, ret |-> create_error_response(command)]

\* _handle_disconnect: the relayed answer is dropped.
handle_disconnect(d, command, session_id, reply) ==
    IF ~d.DEBUGPY_AVAILABLE
    THEN [self |-> d, ret |-> create_error_response(command)]
    ELSE LET d1 == IF d.debug_sessions[session_id] = "connected"
                   THEN relay_dap_message(d, command, session_id, reply).self
                   ELSE d
         IN  [self |-> remove_debug_session(d1, session_id),
              ret |-> create_success_response(command)]

\* _handle_set_breakpoints: an error dict for a request without arguments,
\* the transformed message otherwise.
handle_set_breakpoints(hasArguments) ==
    IF hasArguments THEN "transformed" ELSE "error"

\* The two identical branches of the handler after the connection is there.
RelayRequest(d, command, session_id, env) ==
    IF command = "setBreakpoints"
           /\ handle_set_breakpoints(env.hasArguments) = "error"
    THEN [self |-> d, ret |-> create_error_response(command)]
    ELSE relay_dap_message(d, command, session_id, env.reply)

\* The command routing of handle_debug_adapter_request; _connect_to_debugpy
\* returns env.ok.
RouteCommand(d, command, session_id, env) ==
    CASE command = "initialize" ->
             [self |-> d, ret |-> handle_initialize(d, command, env.ok)]
      [] command = "launch" -> handle_launch(d, command, session_id, env.ok)
      [] command = "disconnect" ->
             handle_disconnect(d, command, session_id, env.reply)
      [] OTHER ->
             IF d.debug_sessions[session_id] = "absent"
             THEN [self |-> d, ret |-> create_error_response(command)]
             ELSE IF d.debug_sessions[session_id] = "connected"
             THEN RelayRequest(d, command, session_id, env)
             ELSE IF env.ok
             THEN RelayRequest([d EXCEPT !.debug_sessions[session_id] = "connected"],
                               command, session_id, env)
             ELSE [self |-> d, ret |-> create_error_response(command)]

\* handle_debug_adapter_request up to its only await. `session` is what
\* manager.get_session returned. Without a session the handler calls
\* manager.create_session(server=ls, notebook_uri=notebook_uri): the
\* keyword-only parameter `executable` is missing, the call raises
\* TypeError before the manager is touched, and the handler answers with an
\* error response. A successful initialize leaves the coroutine suspended
\* in asyncio.sleep(0.1).
handle_debug_adapter_request(d, session, session_id, command, env) ==
    LET d0 == [d EXCEPT !.requests =
                   Append(@, [sessionId |-> session_id, command |-> command])]
    IN  IF session = 0 THEN send_error_response(d0, session_id, command)
        ELSE IF ~d0.DEBUGPY_AVAILABLE
        THEN send_error_response(d0, session_id, command)
        ELSE LET r == RouteCommand(d0, command, session_id, env)
                 d1 == notify(r.self, session_id, r.ret)
             IN  IF command = "initialize" /\ r.ret.success
                 THEN [d1 EXCEPT !.sleeping[session_id] = @ + 1]
                 ELSE d1

DapEnvs == [ok : BOOLEAN, reply : DebugpyReplies, hasArguments : BOOLEAN]

\* import marimo_lsp.debug_adapter: `import debugpy` succeeds or not.
ImportDebugAdapter(available) ==
    /\ ~dap.imported
    /\ dap' = [dap EXCEPT !.imported = TRUE, !.DEBUGPY_AVAILABLE = available]
    /\ UNCHANGED <<sessionVars, lruVars, graphVars, notebookVars, launchVars,
                   transportVars>>

\* The command marimo.dap for a well-formed DAP request.
HandleDap(uri, session_id, command, env) ==
    /\ dap.imported
    /\ Len(dap.requests) < MaxDapRequests
    /\ dap' = handle_debug_adapter_request(dap, get_session(Heap, uri),
                                           session_id, command, env)
    /\ UNCHANGED <<sessionVars, lruVars, graphVars, notebookVars, launchVars,
                   transportVars>>

\* A handler wakes from asyncio.sleep(0.1) and sends the initialized event.
SendInitialized(session_id) ==
    /\ dap.sleeping[session_id] > 0
    /\ dap' = [notify(dap, session_id, DapEvent("initialized"))
                   EXCEPT !.sleeping[session_id] = @ - 1]
    /\ UNCHANGED <<sessionVars, lruVars, graphVars, notebookVars, launchVars,
                   transportVars>>

NextDap ==
    \/ \E available \in BOOLEAN : ImportDebugAdapter(available)
    \/ \E uri \in URIs, outcome \in {"ready", "exit_nonzero"} :
          Run(uri, "python_a", outcome, FALSE, TRUE)
    \/ \E uri \in URIs, session_id \in DapSessionIds,
          command \in DapCommands, env \in DapEnvs :
          HandleDap(uri, session_id, command, env)
    \/ \E session_id \in DapSessionIds : SendInitialized(session_id)

SpecDap == Init /\ [][NextDap]_vars

\* --------------------------------------------------- LRUCache under test
\* The key moves to the end of the access order.
Touch(access, key) == Append(SelectSeq(access, LAMBDA k : k # key), key)

\* LRUCache(capacity=n)
LRUNew(n) ==
    /\ lru = NoCache
    /\ lru' = LRUCache_init(n)
    /\ lruAccess' = <<>>
    /\ lruCall' = [NoLruCall EXCEPT !.op = "init"]
    /\ UNCHANGED <<sessionVars, graphVars, notebookVars, launchVars, transportVars, dapVars>>

LRUGet(key) ==
    /\ lru # NoCache
    /\ lru' = LRUCache_get(lru, key).self
    /\ lruAccess' = IF CacheHas(lru, key) THEN Touch(lruAccess, key)
                    ELSE lruAccess
    /\ lruCall' = [op |-> "get", key |-> key, value |-> None,
                   ret |-> LRUCache_get(lru, key).ret,
                   hit |-> CacheHas(lru, key)]
    /\ UNCHANGED <<sessionVars, graphVars, notebookVars, launchVars, transportVars, dapVars>>

LRUPut(key, value) ==
    /\ lru # NoCache
    /\ lru' = LRUCache_put(lru, key, value)
    /\ lruAccess' = Touch(lruAccess, key)
    /\ lruCall' = [op |-> "put", key |-> key, value |-> value, ret |-> None,
                   hit |-> CacheHas(lru, key)]
    /\ UNCHANGED <<sessionVars, graphVars, notebookVars, launchVars, transportVars, dapVars>>

NextLRU ==
    \/ \E n \in 1..MaxCapacity : LRUNew(n)
    \/ \E key \in LRUKeys : LRUGet(key)
    \/ \E key \in LRUKeys, value \in LRUValues : LRUPut(key, value)

SpecLRU == Init /\ [][NextLRU]_vars

\* ------------------------------------------- graph manager, called directly
GmCall(name) == [NoGmCall EXCEPT !.name = name]

\* The cells of the notebook given to initialize: the stable id of the cell
\* and the source of its document ("" when the workspace has no document).
InitCells ==
    {[stableId |-> i, source |-> t] :
        i \in CellIds \cup {None}, t \in Sources \cup {EmptySource}}

RECURSIVE InitializeCells(_, _)
InitializeCells(m, cells) ==
    IF cells = <<>> THEN m
    ELSE LET cell_id == get_stable_id(Head(cells))
             m1 == IF cell_id # None
                   THEN update_cell(m, cell_id, Head(cells).source)
                   ELSE m
         IN  InitializeCells(m1, Tail(cells))

initialize(m, cells) == [InitializeCells(m, cells) EXCEPT !.stale = TRUE]

\* GraphManagerRegistry.init: initialize is called on a new manager.
Initialize(cells) ==
    /\ gm = NotebookGraphManager_init
    /\ gm' = initialize(gm, cells)
    /\ gmCall' = GmCall("initialize")
    /\ UNCHANGED <<workspace, sessionVars, lruVars, notebookVars, launchVars, transportVars, dapVars>>

UpdateCell(cell_id, source) ==
    /\ gm' = update_cell(gm, cell_id, source)
    /\ gmCall' = [GmCall("update_cell") EXCEPT !.cell = cell_id,
                                                !.source = source]
    /\ UNCHANGED <<workspace, sessionVars, lruVars, notebookVars, launchVars, transportVars, dapVars>>

RemoveCell(cell_id) ==
    /\ gm' = remove_cell(gm, cell_id)
    /\ gmCall' = [GmCall("remove_cell") EXCEPT !.cell = cell_id]
    /\ UNCHANGED <<workspace, sessionVars, lruVars, notebookVars, launchVars, transportVars, dapVars>>

MarkClean ==
    /\ gm' = mark_clean(gm)
    /\ gmCall' = GmCall("mark_clean")
    /\ UNCHANGED <<workspace, sessionVars, lruVars, notebookVars, launchVars, transportVars, dapVars>>

GetGraph ==
    /\ gm' = gm
    /\ gmCall' = GmCall("get_graph")
    /\ UNCHANGED <<workspace, sessionVars, lruVars, notebookVars, launchVars, transportVars, dapVars>>

GetDiagnostics(notebook) ==
    /\ gm' = get_diagnostics(gm, notebook).self
    /\ gmCall' = [GmCall("get_diagnostics") EXCEPT
                     !.notebook = notebook,
                     !.ret = get_diagnostics(gm, notebook).ret]
    /\ UNCHANGED <<workspace, sessionVars, lruVars, notebookVars, launchVars, transportVars, dapVars>>

RemoveCellDocument(uri) ==
    /\ gm' = remove_cell_document(gm, uri)
    /\ gmCall' = [GmCall("remove_cell_document") EXCEPT !.cell = uri]
    /\ UNCHANGED <<workspace, sessionVars, lruVars, notebookVars, launchVars, transportVars, dapVars>>

UpdateCellDocument(uri, source) ==
    /\ gm' = update_cell_document(gm, uri, source)
    /\ gmCall' = [GmCall("update_cell_document") EXCEPT !.cell = uri,
                                                         !.source = source]
    /\ UNCHANGED <<workspace, sessionVars, lruVars, notebookVars, launchVars, transportVars, dapVars>>

\* manager.uri_to_cell_id_cache.put(uri, cell_id), as the tests call it.
UriCachePut(uri, cell_id) ==
    /\ gm' = [gm EXCEPT !.uri_to_cell_id_cache = LRUCache_put(@, uri, cell_id)]
    /\ gmCall' = [GmCall("cache_put") EXCEPT !.cell = uri]
    /\ UNCHANGED <<workspace, sessionVars, lruVars, notebookVars, launchVars, transportVars, dapVars>>

NextGraph ==
    \/ \E c1, c2 \in InitCells : Initialize(<<c1, c2>>)
    \/ \E uri \in CellUris, c \in CellIds : UriCachePut(uri, c)
    \/ \E c \in CellIds, t \in Sources : UpdateCell(c, t)
    \/ \E c \in CellIds : RemoveCell(c)
    \/ MarkClean
    \/ GetGraph
    \/ \E notebook \in Notebooks : GetDiagnostics(notebook)
    \/ \E uri \in CellUris : RemoveCellDocument(uri)
    \/ \E uri \in CellUris, t \in Sources : UpdateCellDocument(uri, t)

SpecGraph == Init /\ [][NextGraph]_vars

\* ------------------------------------- graph manager, driven by the server
\* notebookDocument/didChange: pygls brings the workspace up to date, then
\* the graph manager of the notebook is synced; nothing is published.  A
\* client changes the text of, and closes, documents that are open, and
\* opens documents that are not.
NotebookDidChange(change) ==
    /\ \A i \in 1..Len(change.text_content) :
          change.text_content[i].uri \in workspace
    /\ \A i \in 1..Len(change.did_close) : change.did_close[i] \in workspace
    /\ \A i \in 1..Len(change.did_open) :
          change.did_open[i].uri \notin workspace
    /\ workspace' = update_notebook_document(workspace, change)
    /\ gm' = sync_with_notebook_document_change_event(gm, workspace', change)
    /\ gmCall' = [GmCall("did_change") EXCEPT !.change = change]
    /\ UNCHANGED <<sessionVars, lruVars, notebookVars, launchVars, transportVars, dapVars>>

\* publish_diagnostics: one marimo/operation notification with the variables.
publish_diagnostics(call) == [call EXCEPT !.published = @ + 1]

\* textDocument/diagnostic: publish and mark clean if the graph is stale.
diagnostic(m, call) ==
    IF is_stale(m)
    THEN [self |-> mark_clean(m), call |-> publish_diagnostics(call)]
    ELSE [self |-> m, call |-> call]

Diagnostic ==
    /\ gm' = diagnostic(gm, GmCall("diagnostic")).self
    /\ gmCall' = diagnostic(gm, GmCall("diagnostic")).call
    /\ UNCHANGED <<workspace, sessionVars, lruVars, notebookVars, launchVars, transportVars, dapVars>>

NextSync ==
    \/ \E change \in Changes : NotebookDidChange(change)
    \/ Diagnostic

SpecSync == Init /\ [][NextSync]_vars

\* --------------------------------- notebook document, view and diagnostics
\* notebookDocument/didOpen: GraphManagerRegistry.init builds the manager of
\* the notebook from its cells; every cell document is open.
NotebookDidOpen(cells) ==
    /\ nbDoc = <<>> /\ cells # <<>>
    /\ gm = NotebookGraphManager_init
    /\ nbDoc' = cells
    /\ workspace' = {cells[i].document : i \in 1..Len(cells)}
    /\ gm' = initialize(gm, cells)
    /\ gmCall' = GmCall("initialize")
    /\ UNCHANGED <<app, sessionVars, lruVars, launchVars, transportVars, dapVars>>

\* notebookDocument/didChange that adds one cell at the end of the notebook:
\* the cell in the structure splice, its document in did_open.
NotebookCellAdded(cell) ==
    LET change == [NoChange EXCEPT
                      !.array = <<[document |-> cell.document,
                                   stableId |-> cell.stableId]>>,
                      !.did_open = <<[uri |-> cell.document,
                                      text |-> cell.source]>>]
    IN  /\ Append(nbDoc, cell) \in NotebookDocuments
        /\ nbDoc # <<>>
        /\ nbDoc' = Append(nbDoc, cell)
        /\ workspace' = update_notebook_document(workspace, change)
        /\ gm' = sync_with_notebook_document_change_event(gm, workspace', change)
        /\ gmCall' = [GmCall("didChange") EXCEPT !.change = change]
        /\ UNCHANGED <<app, sessionVars, lruVars, launchVars, transportVars, dapVars>>

\* LspAppFileManager(server, notebook_uri), when a session is created.
LoadApp ==
    /\ nbDoc # <<>>
    /\ app' = [loaded |-> TRUE, cells |-> load_app_from_notebook_document(nbDoc)]
    /\ gmCall' = GmCall("load_app")
    /\ UNCHANGED <<nbDoc, gm, workspace, sessionVars, lruVars, launchVars, transportVars, dapVars>>

\* manager.get_diagnostics(notebook) for the notebook document as it is.
NotebookDiagnostics ==
    /\ nbDoc # <<>>
    /\ gm' = get_diagnostics(gm, Documents(nbDoc)).self
    /\ gmCall' = [GmCall("get_diagnostics") EXCEPT
                     !.notebook = Documents(nbDoc),
                     !.ret = get_diagnostics(gm, Documents(nbDoc)).ret]
    /\ UNCHANGED <<nbDoc, app, workspace, sessionVars, lruVars, launchVars, transportVars, dapVars>>

NextNotebook ==
    \/ \E cells \in NotebookDocuments : NotebookDidOpen(cells)
    \/ \E cell \in NotebookCells : NotebookCellAdded(cell)
    \/ LoadApp
    \/ NotebookDiagnostics

SpecNotebook == Init /\ [][NextNotebook]_vars

\* ------------------------------------------------------------ launch_kernel
\* subprocess.Popen(cmd, stdin=PIPE, stdout=PIPE, stderr=PIPE)
LaunchSpawn(stub) ==
    /\ launch.pc = "idle"
    /\ launch' = [launch EXCEPT !.pc = "write"]
    /\ child' = [NoChild EXCEPT !.state = "running", !.stubborn = stub,
                                !.stderr_open = TRUE]
    /\ UNCHANGED <<sessionVars, lruVars, graphVars, notebookVars,
                 transportVars, dapVars>>

\* process.stdin.write(args.encode_json()); flush(); close().  The flush
\* raises BrokenPipeError if the child has exited already.
LaunchWrite ==
    /\ launch.pc = "write"
    /\ IF child.state = "exited"
       THEN /\ launch' = [launch EXCEPT !.pc = "raised",
                                        !.msg = [NoError EXCEPT
                                                  !.type = "BrokenPipeError",
                                                  !.text = "Broken pipe"]]
            /\ child' = child
       ELSE /\ launch' = [launch EXCEPT !.pc = "readline"]
            /\ child' = [child EXCEPT
                            !.stdin = @ \o encode_json(KernelArgsJson),
                            !.stdin_closed = TRUE]
    /\ UNCHANGED <<sessionVars, lruVars, graphVars, notebookVars,
                 transportVars, dapVars>>

\* process.stdout.readline() returns once the child has written a line or
\* its stdout is at end of file; on a line other than KERNEL_READY the exit
\* code is polled.
LaunchReadline ==
    /\ launch.pc = "readline"
    /\ child.stdout # <<>> \/ child.state = "exited"
    /\ LET line == IF child.stdout # <<>> THEN Head(child.stdout) ELSE Eof
       IN  launch' =
             IF strip(line) = "KERNEL_READY"
             THEN [launch EXCEPT !.pc = "returned", !.ready_line = strip(line)]
             ELSE [launch EXCEPT !.pc = "read_stderr",
                                 !.ready_line = strip(line),
                                 !.polled = (child.state = "exited"),
                                 !.exit_code = child.exit_code]
    /\ UNCHANGED <<child, sessionVars, lruVars, graphVars, notebookVars,
                 transportVars, dapVars>>

\* process.stderr.read() returns once every writer has closed stderr; then
\* RuntimeError, after process.terminate() unless a non-zero exit code was
\* polled.
LaunchReadStderr ==
    /\ launch.pc = "read_stderr"
    /\ ~child.stderr_open
    /\ IF launch.polled /\ launch.exit_code # 0
       THEN /\ launch' = [launch EXCEPT
                            !.pc = "raised", !.stderr = child.stderr,
                            !.msg = [type |-> "RuntimeError",
                                     text |-> "Kernel failed to start",
                                     ready_line |-> "",
                                     stderr |-> child.stderr]]
            /\ child' = child
       ELSE /\ launch' = [launch EXCEPT
                            !.pc = "raised", !.stderr = child.stderr,
                            !.msg = [type |-> "RuntimeError",
                                     text |-> "Invalid kernel response",
                                     ready_line |-> launch.ready_line,
                                     stderr |-> child.stderr]]
            /\ child' = process_terminate(child)
    /\ UNCHANGED <<sessionVars, lruVars, graphVars, notebookVars,
                 transportVars, dapVars>>

\* The child runs kernel_server.main: it reads its two lines once stdin is
\* closed; a line that does not decode raises, and the child exits with a
\* traceback on stderr.
ChildMain ==
    /\ child.state = "running" /\ child.stdin_closed /\ child.main = "none"
    /\ child' = IF kernel_server_main(child.stdin)
                THEN [child EXCEPT !.main = "connected"]
                ELSE [child EXCEPT !.main = "failed", !.state = "exited",
                                   !.exit_code = 1, !.stderr_open = FALSE,
                                   !.stderr = IF child.stderr_open
                                              THEN Append(@, "Traceback")
                                              ELSE @]
    /\ UNCHANGED <<launch, sessionVars, lruVars, graphVars, notebookVars,
                 transportVars, dapVars>>

\* The child writes its first line to stdout.
ChildWriteLine(line) ==
    /\ child.state \in {"running", "sigterm"} /\ child.stdout = <<>>
    /\ child' = [child EXCEPT !.stdout = <<line>>]
    /\ UNCHANGED <<launch, sessionVars, lruVars, graphVars, notebookVars,
                 transportVars, dapVars>>

ChildWriteStderr ==
    /\ child.state \in {"running", "sigterm"}
    /\ child.stderr_open /\ child.stderr = <<>>
    /\ child' = [child EXCEPT !.stderr = <<"Traceback">>]
    /\ UNCHANGED <<launch, sessionVars, lruVars, graphVars, notebookVars,
                 transportVars, dapVars>>

\* The child closes its stderr and keeps running.
ChildCloseStderr ==
    /\ child.state \in {"running", "sigterm"} /\ child.stderr_open
    /\ child' = [child EXCEPT !.stderr_open = FALSE]
    /\ UNCHANGED <<launch, sessionVars, lruVars, graphVars, notebookVars,
                 transportVars, dapVars>>

ChildExit(code) ==
    /\ child.state = "running"
    /\ child' = [child EXCEPT !.state = "exited", !.exit_code = code,
                              !.stderr_open = FALSE]
    /\ UNCHANGED <<launch, sessionVars, lruVars, graphVars, notebookVars,
                 transportVars, dapVars>>

\* A child that was sent SIGTERM and honours it exits.
ChildDies ==
    /\ child.state = "sigterm"
    /\ child' = [child EXCEPT !.state = "exited", !.exit_code = 1,
                              !.stderr_open = FALSE]
    /\ UNCHANGED <<launch, sessionVars, lruVars, graphVars, notebookVars,
                 transportVars, dapVars>>

NextLaunch ==
    \/ \E stub \in BOOLEAN : LaunchSpawn(stub)
    \/ LaunchWrite
    \/ LaunchReadline
    \/ LaunchReadStderr
    \/ ChildMain
    \/ \E line \in StdoutLines : ChildWriteLine(line)
    \/ ChildWriteStderr
    \/ ChildCloseStderr
    \/ \E code \in 0..1 : ChildExit(code)
    \/ ChildDies

SpecLaunch == Init /\ [][NextLaunch]_vars

\* launch_kernel runs on: each of its steps is taken once it can be, and a
\* child that honours SIGTERM exits.  Nothing obliges the child to write,
\* to close stderr or to exit.
FairSpecLaunch ==
    /\ SpecLaunch
    /\ WF_vars(LaunchWrite) /\ WF_vars(LaunchReadline)
    /\ WF_vars(LaunchReadStderr) /\ WF_vars(ChildDies)

\* ------------------------------------------------------------ IPC transport
\* The host puts a line on its input queue (queue.Queue.put blocks while the
\* queue is full).
HostPutInput(line) ==
    /\ ~inputChan.closed
    /\ Len(inputChan.host_queue) < InputMaxsize
    /\ inputChan' = [inputChan EXCEPT !.host_queue = Append(@, line)]
    /\ UNCHANGED <<conn, sessionVars, lruVars, graphVars, notebookVars,
                   launchVars, dapVars>>

\* The kernel puts on its input queue: PushQueue.put sends on the socket.
KernelPutInput(line) ==
    /\ ~inputChan.closed
    /\ Len(inputChan.wire) < MaxInFlight
    /\ inputChan' = [inputChan EXCEPT !.wire = Append(@, line)]
    /\ UNCHANGED <<conn, sessionVars, lruVars, graphVars, notebookVars,
                   launchVars, dapVars>>

\* The kernel reads from its input queue: a PushQueue is send-only, get()
\* raises NotImplementedError.
KernelGetInput ==
    /\ ~inputChan.closed
    /\ inputChan' = [inputChan EXCEPT !.kernel_get = "NotImplementedError"]
    /\ UNCHANGED <<conn, sessionVars, lruVars, graphVars, notebookVars,
                   launchVars, dapVars>>

\* The receiver thread of the host: input_queue is a queue.Queue, so the
\* host's input socket is in the mapping; what arrives on it is put on the
\* host's input queue.
HostReceiver ==
    /\ ~inputChan.closed
    /\ inputChan.wire # <<>>
    /\ Len(inputChan.host_queue) < InputMaxsize
    /\ inputChan' = [inputChan EXCEPT
                        !.host_queue = Append(@, Head(inputChan.wire)),
                        !.wire = Tail(@)]
    /\ UNCHANGED <<conn, sessionVars, lruVars, graphVars, notebookVars,
                   launchVars, dapVars>>

\* ZeroMqQueueManager.close_queues of the host: the receiver thread stops
\* and the sockets are closed.
CloseQueues ==
    /\ ~inputChan.closed
    /\ inputChan' = [inputChan EXCEPT !.closed = TRUE, !.wire = <<>>]
    /\ UNCHANGED <<conn, sessionVars, lruVars, graphVars, notebookVars,
                   launchVars, dapVars>>

\* The peer publishes a message.
ConnPublish(msg) ==
    /\ ~conn.closed
    /\ Len(conn.socket) + Len(conn.recv_buffer) < MaxInFlight
    /\ conn' = [conn EXCEPT !.socket = Append(@, msg)]
    /\ UNCHANGED <<inputChan, sessionVars, lruVars, graphVars, notebookVars,
                   launchVars, dapVars>>

\* ZMQTypedConnection._receive_loop, one turn that receives a message.
ReceiveLoop ==
    /\ ~conn.stop_event
    /\ conn.socket # <<>>
    /\ conn' = [conn EXCEPT !.recv_buffer = Append(@, Head(conn.socket)),
                            !.socket = Tail(@)]
    /\ UNCHANGED <<inputChan, sessionVars, lruVars, graphVars, notebookVars,
                   launchVars, dapVars>>

\* ZMQTypedConnection.recv is called: it raises on a closed connection,
\* otherwise it enters its loop.
RecvCall ==
    /\ conn.pc # "waiting"
    /\ conn' = IF conn.closed
               THEN [conn EXCEPT !.pc = "raised", !.ret = None]
               ELSE [conn EXCEPT !.pc = "waiting", !.ret = None]
    /\ UNCHANGED <<inputChan, sessionVars, lruVars, graphVars, notebookVars,
                   launchVars, dapVars>>

\* The loop of recv: it returns the first buffered message when there is
\* one; it tests nothing else.
RecvLoop ==
    /\ conn.pc = "waiting"
    /\ conn.recv_buffer # <<>>
    /\ conn' = [conn EXCEPT !.pc = "returned", !.ret = Head(conn.recv_buffer),
                            !.recv_buffer = Tail(@)]
    /\ UNCHANGED <<inputChan, sessionVars, lruVars, graphVars, notebookVars,
                   launchVars, dapVars>>

\* ZMQTypedConnection.close
ConnClose ==
    /\ ~conn.closed
    /\ conn' = [conn EXCEPT !.closed = TRUE, !.stop_event = TRUE]
    /\ UNCHANGED <<inputChan, sessionVars, lruVars, graphVars, notebookVars,
                   launchVars, dapVars>>

NextTransport ==
    \/ \E line \in InputLines : HostPutInput(line)
    \/ \E line \in InputLines : KernelPutInput(line)
    \/ KernelGetInput
    \/ HostReceiver
    \/ CloseQueues
    \/ \E msg \in Messages : ConnPublish(msg)
    \/ ReceiveLoop
    \/ RecvCall
    \/ RecvLoop
    \/ ConnClose

SpecTransport == Init /\ [][NextTransport]_vars

\* The threads run on: the receiver threads and the loop of recv take their
\* turn whenever there is something for them to take.
FairSpecTransport ==
    /\ SpecTransport
    /\ WF_vars(HostReceiver) /\ WF_vars(KernelGetInput)
    /\ WF_vars(ReceiveLoop) /\ WF_vars(RecvLoop)

\* ==================================================================== claims
Alive(p) == proc[p].state \in {"running", "sigterm"}
SessionsOf(uri) == {s \in Ids : sess[s].constructed /\ sess[s].uri = uri}
OpenSessionsOf(uri) == {s \in SessionsOf(uri) : ~sess[s].closed}
Registered(uri) == {i \in 1..Len(sessions) : sessions[i].uri = uri}
OpAt(i) == lastOps[i][1]

\* C1: the registry never holds more than one session per notebook id, no
\* notebook id has two sessions that are not closed, get_session returns
\* the most recently created session of the id, and a run that replaces a
\* session closes the old one before it launches the new kernel and before
\* it inserts the new session.
C1_OneSessionPerNotebook ==
    /\ \A uri \in URIs :
        /\ Cardinality(Registered(uri)) <= 1
        /\ Cardinality(OpenSessionsOf(uri)) <= 1
        /\ DictGet(sessions, uri) # 0 =>
              /\ DictGet(sessions, uri) \in OpenSessionsOf(uri)
              /\ \A t \in SessionsOf(uri) : t <= DictGet(sessions, uri)
    /\ lastCall.name = "run" =>
          \A i, j \in 1..Len(lastOps) :
              /\ OpAt(i) = "close" /\ OpAt(j) \in {"launch", "insert"} => i < j
              /\ OpAt(i) = "launch" /\ OpAt(j) = "insert" => i < j

\* C1 witness: a run has just replaced the session of its notebook.
C1_Witness ==
    /\ lastCall.name = "run"
    /\ \E i, j \in 1..Len(lastOps) : OpAt(i) = "close" /\ OpAt(j) = "insert"
    /\ \E s \in SessionsOf(lastCall.uri) : sess[s].closed
    /\ DictGet(sessions, lastCall.uri) \in OpenSessionsOf(lastCall.uri)

\* C2: when a run that created a session returns, the only kernel
\* subprocess of its notebook that is alive is the one of the registered
\* session; the kernels of the sessions it replaced have terminated.
C2_ReplacedKernelTerminated ==
    lastCall.name = "run" /\ (\E i \in 1..Len(lastOps) : OpAt(i) = "insert") =>
        \A s \in SessionsOf(lastCall.uri) :
            Alive(s) <=> s = DictGet(sessions, lastCall.uri)

\* C3: every session the registry created has been instantiated exactly
\* once; on its control channel the create-notebook command comes first and
\* everything after it is an execution request.
C3_InstantiatedOnce ==
    \A s \in Ids : sess[s].constructed =>
        /\ sess[s].instantiations = 1
        /\ ~sess[s].closed =>
              /\ Len(control[s]) >= 2
              /\ control[s][1] = "create_notebook"
              /\ \A i \in 2..Len(control[s]) : control[s][i] = "execute"

\* C3 witness: a session was reused by a second run.
C3_Witness ==
    \E s \in Ids :
        /\ sess[s].constructed /\ sess[s].instantiations = 1
        /\ Len(control[s]) = 3
        /\ lastCall.name = "run" /\ lastOps = << <<"put", s>> >>

\* C4: when shutdown() returns no kernel subprocess of any session is alive.
C4_ShutdownLeavesNoKernel ==
    lastCall.name = "shutdown" =>
        \A s \in Ids : sess[s].constructed => ~Alive(s)

\* C5: once terminate() has returned on a subprocess that honours SIGTERM
\* (or had already exited), the subprocess is not alive.
C5_TerminatedNotAlive ==
    \A p \in Ids :
        proc[p].terminateReturned /\ ~proc[p].stubborn => ~Alive(p)

\* C6: once terminate() has returned on a subprocess that ignores SIGTERM,
\* the subprocess has been force-killed and is not alive.
C6_StubbornForceKilled ==
    \A p \in Ids :
        proc[p].terminateReturned /\ proc[p].stubborn => ~Alive(p)

\* C7: a didClose step closes and removes the notebook's session if the URI
\* has the "untitled:" scheme, and otherwise leaves the registry, every
\* session and every kernel as they were.
C7_DidCloseOnlyUntitled ==
    [][lastCall'.name = "did_close" =>
        LET uri == lastCall'.uri
            old == DictGet(sessions, uri)
        IN  IF uri[1] = "untitled:"
            THEN /\ DictGet(sessions', uri) = 0
                 /\ instantiated'[uri] = "absent"
                 /\ old # 0 => sess'[old].closed
            ELSE /\ sessions' = sessions
                 /\ instantiated' = instantiated
                 /\ sess' = sess
                 /\ proc' = proc]_vars

\* C7 witness: didClose removed the session of the untitled notebook while
\* the session of the file notebook stays registered with a live kernel.
C7_Witness ==
    /\ lastCall.name = "did_close" /\ lastCall.uri = UntitledUri
    /\ \E i \in 1..Len(lastOps) : OpAt(i) = "close"
    /\ DictGet(sessions, UntitledUri) = 0
    /\ DictGet(sessions, FileUri) # 0
    /\ Alive(DictGet(sessions, FileUri))

C9_ListenerExits ==
    \A s \in Ids : sess[s].closed ~> (listener[s].pc = "done")

\* C9 witness: the listener of a closed session has exited and left a
\* message in the stream queue.
C9_Witness ==
    \E s \in Ids :
        /\ sess[s].closed /\ sess[s].hasStream
        /\ listener[s].pc = "done"
        /\ stream[s] # <<>>

InFlight(s) == IF listener[s].pc = "notify" THEN <<listener[s].msg>> ELSE <<>>

\* C10: the messages passed to the consumer, the one the listener holds and
\* those still queued are, in this order, exactly the messages the kernel
\* put (no loss, duplication or reordering); and every message the kernel
\* put is eventually passed to the consumer unless the session is closed.
C10_StreamDelivery ==
    /\ [](\A s \in Ids :
            delivered[s] \o InFlight(s) \o stream[s] = [i \in 1..sent[s] |-> i])
    /\ \A s \in Ids : \A k \in 1..MaxMsgs :
            (sent[s] >= k) ~> (Len(delivered[s]) >= k \/ sess[s].closed)

\* C10 witness: an open session's consumer has received two messages.
C10_Witness ==
    \E s \in Ids :
        /\ ~sess[s].closed
        /\ Len(delivered[s]) >= 2
        /\ delivered[s][1] = 1 /\ delivered[s][2] = 2

\* ---------------------------------------------------- graph manager claims
Tracked(c) == gm.cell_sources[c] # NoSource
Defines(g, c) == {n \in Names : c \in g.definitions[n]}
EdgesOf(g, c) == {e \in g.edges : e[1] = c \/ e[2] = c}

\* C11: update_cell(c, s) called when the stored source of c is already s
\* changes nothing of the manager: the graph, the compiled artefacts, the
\* stale flag and the cached diagnostics stay as they were, also when s has a
\* syntax error and c is absent from the graph.
C11_UnchangedUpdateIsNoOp ==
    [][gmCall'.name = "update_cell"
       /\ gm.cell_sources[gmCall'.cell] = gmCall'.source => gm' = gm]_vars

\* C11 witness: after mark_clean and get_diagnostics, update_cell was called
\* with the stored source of a cell whose source has a syntax error.
C11_Witness ==
    /\ gmCall.name = "update_cell"
    /\ gmCall.source = SrcBad
    /\ gm.cell_sources[gmCall.cell] = SrcBad
    /\ ~InGraph(gm.graph, gmCall.cell)
    /\ ~gm.stale
    /\ gm.cached_diagnostics.filled

\* C12: a cell is in graph.cells iff a compiled artefact is stored for it,
\* iff its tracked source compiles; the artefact is the one of the tracked
\* source; a cell whose tracked source has a syntax error is in neither
\* graph.cells nor any definitions[n]; and an update_cell with a source that
\* compiles puts the cell in the graph.
C12_GraphMatchesSources ==
    /\ [](\A c \in CellIds :
            /\ InGraph(gm.graph, c) <=> gm.compiled_cells[c].ok
            /\ gm.compiled_cells[c].ok <=>
                  (Tracked(c) /\ WellFormed(gm.cell_sources[c]))
            /\ gm.compiled_cells[c].ok =>
                  /\ gm.compiled_cells[c] = compile_cell(gm.cell_sources[c])
                  /\ gm.graph.cells[c] = gm.compiled_cells[c]
                  /\ Defines(gm.graph, c) = gm.compiled_cells[c].defs
            /\ Tracked(c) /\ ~WellFormed(gm.cell_sources[c]) =>
                  /\ ~InGraph(gm.graph, c)
                  /\ Defines(gm.graph, c) = {})
    /\ [][gmCall'.name = "update_cell" /\ WellFormed(gmCall'.source) =>
            InGraph(gm'.graph, gmCall'.cell)]_vars

\* C12 witness: a cell that was updated to a source with a syntax error is
\* tracked and absent from the graph, next to a cell that is in the graph.
C12_Witness ==
    /\ gmCall.name = "update_cell"
    /\ gmCall.source = SrcBad
    /\ gm.cell_sources[gmCall.cell] = SrcBad
    /\ ~InGraph(gm.graph, gmCall.cell)
    /\ gm.stale
    /\ \E o \in CellIds \ {gmCall.cell} : InGraph(gm.graph, o)

\* C13: when remove_cell(c) returns, c is in none of graph.cells, the
\* definitions[n], the tracked sources and the compiled artefacts, and no
\* edge of the graph starts or ends at c.
C13_RemovedCellIsGone ==
    gmCall.name = "remove_cell" =>
        /\ ~InGraph(gm.graph, gmCall.cell)
        /\ Defines(gm.graph, gmCall.cell) = {}
        /\ ~Tracked(gmCall.cell)
        /\ ~gm.compiled_cells[gmCall.cell].ok
        /\ EdgesOf(gm.graph, gmCall.cell) = {}

\* C13 witness: the cell that defined x was removed while the cell that
\* reads x stays in the graph.
C13_Witness ==
    /\ gmCall.name = "remove_cell"
    /\ gm.graph.definitions["x"] = {}
    /\ gm.graph.edges = {}
    /\ \E o \in CellIds \ {gmCall.cell} :
          /\ InGraph(gm.graph, o)
          /\ gm.cell_sources[o] = SrcYX

\* The CellId the URI cache of manager m holds for uri, None if it has none.
MappedTo(m, uri) ==
    IF CacheHas(m.uri_to_cell_id_cache, uri)
    THEN CacheValue(m.uri_to_cell_id_cache, uri) ELSE None

\* The cells an event's did_open entries and its text_content entries for
\* open documents update, under the mappings of manager m.
OpenedCells(m, change) ==
    {MappedTo(m, change.did_open[j].uri) : j \in 1..Len(change.did_open)}
TextCells(m, ws, change) ==
    {MappedTo(m, change.text_content[j].uri) :
        j \in {j \in 1..Len(change.text_content) :
                  change.text_content[j].uri \in ws}}
ArrivedCells(change) == change.data \o change.array

\* C14 as stated: after a change event whose did_close lists a URI that was
\* mapped to CellId c before the event, c is in neither graph.cells nor any
\* definitions[n].
C14_ClosedCellAbsent ==
    [][gmCall'.name = "did_change" =>
        \A i \in 1..Len(gmCall'.change.did_close) :
            LET c == MappedTo(gm, gmCall'.change.did_close[i])
            IN  c # None =>
                    /\ ~InGraph(gm'.graph, c)
                    /\ Defines(gm'.graph, c) = {}]_vars

\* C14 amended: after a change event whose did_close lists a URI that maps
\* to CellId c once the event's own mappings are persisted, c is in neither
\* graph.cells nor any definitions[n], unless a did_open entry of the event,
\* or a text_content entry for a document that is still open, maps to c.  A
\* text_content entry for the closed URI itself does not bring c back.
C14_ClosedCellAbsentUnlessUpdated ==
    [][gmCall'.name = "did_change" =>
        LET change == gmCall'.change
        IN  \A i \in 1..Len(change.did_close) :
                LET c == MappedTo(gm', change.did_close[i])
                IN  /\ c # None
                    /\ c \notin OpenedCells(gm', change)
                    /\ c \notin TextCells(gm', workspace', change)
                    => /\ ~InGraph(gm'.graph, c)
                       /\ Defines(gm'.graph, c) = {}
                       /\ gm'.cell_sources[c] = NoSource]_vars

\* C14 witness: an event closed a mapped cell document and carried a
\* text_content entry with valid source for the same URI; the cell is gone
\* while the other cell stays in the graph.
C14_Witness ==
    /\ gmCall.name = "did_change"
    /\ Len(gmCall.change.did_close) = 1
    /\ Len(gmCall.change.text_content) = 1
    /\ gmCall.change.text_content[1].uri = gmCall.change.did_close[1]
    /\ gmCall.change.text_content[1].text = SrcX1
    /\ MappedTo(gm, gmCall.change.did_close[1]) # None
    /\ ~InGraph(gm.graph, MappedTo(gm, gmCall.change.did_close[1]))
    /\ \E o \in CellIds : InGraph(gm.graph, o)

C16_StaleFlag ==
    [][/\ gmCall'.name \in {"initialize", "remove_cell"} => gm'.stale
       /\ gmCall'.name = "update_cell"
          /\ gm.cell_sources[gmCall'.cell] # gmCall'.source => gm'.stale
       /\ gm.stale /\ ~gm'.stale => gmCall'.name = "mark_clean"
       /\ gmCall'.name \in {"get_diagnostics", "get_graph"} =>
             gm'.stale = gm.stale
       /\ gmCall'.name = "update_cell"
          /\ gm.cell_sources[gmCall'.cell] = gmCall'.source =>
             gm'.stale = gm.stale
       /\ gmCall'.name \in {"remove_cell_document", "update_cell_document"}
          /\ MappedTo(gm, gmCall'.cell) = None =>
             gm'.stale = gm.stale]_vars

\* C16 witness: with a cell in the graph and the manager marked clean, a
\* document update whose URI has no mapping left the manager clean.
C16_Witness ==
    /\ gmCall.name = "update_cell_document"
    /\ MappedTo(gm, gmCall.cell) = None
    /\ ~gm.stale
    /\ \E c \in CellIds : InGraph(gm.graph, c)

Oldest(access, ks) ==
    access[CHOOSE i \in 1..Len(access) :
              access[i] \in ks /\ \A j \in 1..(i - 1) : access[j] \notin ks]
\* The items of a cache other than the one of key, by key.
Others(c, key) ==
    {<<c.cache[i].key, c.cache[i].value>> :
        i \in {i \in 1..Len(c.cache) : c.cache[i].key # key}}
MostRecent(c) == c.cache[Len(c.cache)].key

\* C18: a put of a new key into a full LRUCache evicts the key whose last
\* access (a get that hit, or a put) is the oldest, and only that key; a get
\* that hits returns the stored value, makes the key the most recent and
\* keeps every item; a get that misses returns None and changes nothing;
\* the items of the cache are always in the order of their last access;
\* and the URI cache of a graph manager has capacity 1000.
C18_LRUEviction ==
    /\ [](gm.uri_to_cell_id_cache.capacity = 1000)
    /\ []([i \in 1..Len(lru.cache) |-> lru.cache[i].key] =
            SelectSeq(lruAccess, LAMBDA k : k \in CacheKeys(lru)))
    /\ [][/\ lruCall'.op = "put" /\ ~CacheHas(lru, lruCall'.key)
             /\ Len(lru.cache) = lru.capacity =>
                /\ CacheKeys(lru') =
                      (CacheKeys(lru) \ {Oldest(lruAccess, CacheKeys(lru))})
                      \cup {lruCall'.key}
                /\ Others(lru', lruCall'.key) \subseteq Others(lru, lruCall'.key)
                /\ CacheValue(lru', lruCall'.key) = lruCall'.value
          /\ lruCall'.op = "get" /\ CacheHas(lru, lruCall'.key) =>
                /\ lruCall'.ret = CacheValue(lru, lruCall'.key)
                /\ CacheValue(lru', lruCall'.key) = lruCall'.ret
                /\ Others(lru', lruCall'.key) = Others(lru, lruCall'.key)
                /\ MostRecent(lru') = lruCall'.key
          /\ lruCall'.op = "get" /\ ~CacheHas(lru, lruCall'.key) =>
                /\ lruCall'.ret = None
                /\ lru' = lru]_vars

\* C18 witness: in a full cache of capacity two, the put of a third key
\* evicted the key that was put second, because the first was read since.
C18_Witness ==
    /\ lruCall.op = "put" /\ ~lruCall.hit
    /\ lru.capacity = 2
    /\ lruAccess = <<"b", "a", "c">>
    /\ CacheKeys(lru) = {"a", "c"}
    /\ CacheValue(lru, "a") # CacheValue(lru, "c")

\* C19: an LRUCache of capacity n >= 1 never holds more than n items, and a
\* put on a key that is present replaces its value, makes it the most
\* recent and keeps every other item.
C19_LRUCapacity ==
    /\ [](lru.capacity >= 1 => Len(lru.cache) <= lru.capacity)
    /\ [](Len(gm.uri_to_cell_id_cache.cache) <= gm.uri_to_cell_id_cache.capacity)
    /\ [][lruCall'.op = "put" /\ CacheHas(lru, lruCall'.key) =>
            /\ CacheKeys(lru') = CacheKeys(lru)
            /\ CacheValue(lru', lruCall'.key) = lruCall'.value
            /\ Others(lru', lruCall'.key) = Others(lru, lruCall'.key)
            /\ MostRecent(lru') = lruCall'.key]_vars

\* C19 witness: in a full cache of capacity two, a put on the older key
\* replaced its value and both keys are still there.
C19_Witness ==
    /\ lruCall.op = "put" /\ lruCall.hit
    /\ lru.capacity = 2 /\ Len(lru.cache) = 2
    /\ lruAccess = <<"b", "a">>
    /\ MostRecent(lru) = "a"
    /\ CacheValue(lru, "a") = "v2" /\ CacheValue(lru, "b") = "v1"

\* ------------------------------------------------- diagnostics cache claims
\* C20: get_diagnostics returns what collect_diagnostics computes from the
\* current graph and the notebook passed in; every update_cell that changes
\* the source and every remove_cell drops the cached value.
C20_DiagnosticsMatchCollect ==
    /\ [](gmCall.name = "get_diagnostics" =>
             gmCall.ret = collect_diagnostics(gmCall.notebook, gm))
    /\ [][\/ /\ gmCall'.name = "update_cell"
             /\ gm.cell_sources[gmCall'.cell] # gmCall'.source
          \/ gmCall'.name = "remove_cell" =>
             ~gm'.cached_diagnostics.filled]_vars

\* ------------------------------------------------------- diagnostics claims
\* The diagnostics of a kind that get_diagnostics has just returned for the
\* document of the i-th cell of the notebook.
DiagnosticsOf(i, code) ==
    {d \in gmCall.ret : d.code = code /\ d.uri = nbDoc[i].document}
\* The display name of the i-th cell of the notebook.
DisplayName(i) == <<"cell-", i>>
\* The i-th and the j-th cell of the notebook read each other's definitions.
TwoCellCycle(i, j) ==
    /\ i # j
    /\ nbDoc[i].stableId # None /\ nbDoc[j].stableId # None
    /\ <<nbDoc[i].stableId, nbDoc[j].stableId>> \in gm.graph.edges
    /\ <<nbDoc[j].stableId, nbDoc[i].stableId>> \in gm.graph.edges
\* The i-th cell of the notebook is on no cycle of the graph.
OnNoCycle(i) ==
    \A cycle \in Cycles(gm.graph) : \A k \in 1..Len(cycle) :
        nbDoc[i].stableId \notin {cycle[k][1], cycle[k][2]}
DiagnosticsReturned ==
    gmCall.name = "get_diagnostics" /\ gmCall.notebook = Documents(nbDoc)

\* C21: when two cells of the notebook form a dependency cycle, the
\* diagnostics hold exactly one cycle diagnostic for each of them, under the
\* cell's document URI, at range (0,0)-(0,0), naming both cells in edge
\* order; a cell on no cycle has no cycle diagnostic.
C21_OneCycleDiagnosticPerCell ==
    DiagnosticsReturned =>
        \A i \in 1..Len(nbDoc) :
            /\ \A j \in 1..Len(nbDoc) : TwoCellCycle(i, j) =>
                  /\ Cardinality(DiagnosticsOf(i, "cycle-error")) = 1
                  /\ \A d \in DiagnosticsOf(i, "cycle-error") :
                        /\ d.range = <<0, 0, 0, 0>>
                        /\ d.cycle \in
                             {<<DisplayName(i), DisplayName(j), DisplayName(i)>>,
                              <<DisplayName(j), DisplayName(i), DisplayName(j)>>}
            /\ OnNoCycle(i) => DiagnosticsOf(i, "cycle-error") = {}

\* The spans of the assignment targets of a name in the text of the i-th
\* cell of the notebook.
TargetSpans(i, n) ==
    {<<0, 2 * (k - 1), 0, 2 * (k - 1) + 1>> :
        k \in {k \in 1..(Len(nbDoc[i].source) - 1) :
                 /\ nbDoc[i].source[k] = n
                 /\ nbDoc[i].source[k + 1] = "="}}
\* The multiple-definition diagnostics of a name returned for the i-th cell.
MultipleDefinitionsOf(i, n) ==
    {d \in DiagnosticsOf(i, "multiple-definition") : d.variable = n}

\* C22: for every name that two or more cells of the graph define, each
\* defining cell has one multiple-definition diagnostic for every
\* assignment target of that name in its text, covering the target's span
\* and listing exactly the other defining cells by display name; a name with
\* one defining cell yields none.
C22_MultipleDefinitionPerTarget ==
    DiagnosticsReturned =>
        \A n \in Names : \A i \in 1..Len(nbDoc) :
            IF /\ Cardinality(gm.graph.definitions[n]) >= 2
               /\ nbDoc[i].stableId \in gm.graph.definitions[n]
            THEN /\ {d.range : d \in MultipleDefinitionsOf(i, n)}
                       = TargetSpans(i, n)
                 /\ Cardinality(MultipleDefinitionsOf(i, n))
                       = Cardinality(TargetSpans(i, n))
                 /\ \A d \in MultipleDefinitionsOf(i, n) :
                       d.others =
                          {DisplayName(j) :
                              j \in {j \in 1..Len(nbDoc) :
                                       /\ j # i
                                       /\ nbDoc[j].stableId
                                             \in gm.graph.definitions[n]}}
            ELSE MultipleDefinitionsOf(i, n) = {}

\* ----------------------------------------------------- launch_kernel claims
ChildAlive == child.state \in {"running", "sigterm"}

\* C23: launch_kernel returns only if the first line of the child's stdout
\* is KERNEL_READY; when it raises, the error carries what the child wrote
\* to stderr and the child is not running.
C23_ReadyOrLaunchError ==
    /\ launch.pc = "returned" =>
          child.stdout # <<>> /\ Head(child.stdout) \in ReadyLines
    /\ launch.pc = "raised" =>
          /\ launch.msg.type = "RuntimeError"
          /\ launch.msg.stderr = child.stderr
          /\ ~ChildAlive

\* C24: a call of launch_kernel that has spawned its child eventually
\* returns or raises, whatever the child does.
C24_LaunchCompletes ==
    (launch.pc = "write") ~> (launch.pc \in {"returned", "raised"})

\* C25: what the parent has written when it closes the child's stdin is two
\* JSON lines, ConnectionInfo then KernelArgs, and kernel_server.main, which
\* reads two lines in that order, decodes both.
C25_TwoLinesAsExpected ==
    /\ child.stdin_closed =>
          /\ Len(child.stdin) = 2
          /\ decode_connection_info(child.stdin[1])
          /\ decode_kernel_args(child.stdin[2])
    /\ child.main # "failed"

\* C26: the input channel carries lines from the host to the kernel with at
\* most one pending line: the host-side input queue never holds more than
\* one line, and a line put on it becomes readable on the kernel-side input
\* queue (the kernel's input_queue.get() returns it).
C26_InputReachesKernel ==
    /\ [](Len(inputChan.host_queue) <= InputMaxsize)
    /\ \A line \in InputLines :
          (inputChan.host_queue = <<line>>)
             ~> (\E i \in 1..Len(inputChan.kernel_read) :
                    inputChan.kernel_read[i] = line)

\* C27: a recv() that is waiting for a message when its connection is closed
\* returns or raises; no pending receive waits forever after close.
C27_PendingRecvObservesClose ==
    (conn.closed /\ conn.pc = "waiting") ~> (conn.pc # "waiting")

ApiQueries ==
    {"interrupt", "get_package_list", "get_dependency_tree",
     "get_configuration", "update_configuration"}

DefaultResult(name) ==
    CASE name = "get_package_list" -> [packages |-> <<>>]
      [] name = "get_dependency_tree" -> [tree |-> None]
      [] name = "get_configuration" -> [config |-> EmptyDict]
      [] name = "update_configuration" ->
            [success |-> FALSE, error |-> "No session found"]
      [] OTHER -> ReturnsNone

\* C28: get_package_list, get_dependency_tree, get_configuration,
\* update_configuration and interrupt, invoked for a notebook that has no
\* session, do not raise, return their default result, create no session
\* and send nothing to any kernel.
C28_NoSessionDefaults ==
    [][(lastCall'.name \in ApiQueries /\ DictGet(sessions, lastCall'.uri) = 0)
          => /\ ~lastCall'.raised
             /\ lastCall'.ret = DefaultResult(lastCall'.name)
             /\ sessions' = sessions /\ nextId' = nextId /\ sess' = sess
             /\ proc' = proc
             /\ control' = control
             /\ lastOps' = <<>>]_vars

\* A session exists for another notebook, and update_configuration has
\* returned its default for a notebook without one.
C28_Witness ==
    /\ lastCall.name = "update_configuration"
    /\ DictGet(sessions, lastCall.uri) = 0
    /\ sessions # <<>>
    /\ lastCall.ret = [success |-> FALSE, error |-> "No session found"]

\* ------------------------------------------------------ notebook claims
\* The ids under which the view registered cells for the kernel.
ViewCellIds == {app.cells[k].cell_id : k \in 1..Len(app.cells)}

\* C29: a cell of the notebook whose kind is not Code is not registered in
\* the kernel's view of the notebook and is not tracked by the graph
\* manager, whether it came with didOpen or with a change event.
C29_OnlyCodeCells ==
    \A i \in 1..Len(nbDoc) : nbDoc[i].kind # "Code" =>
        /\ nbDoc[i].document \notin ViewCellIds
        /\ nbDoc[i].stableId \notin ViewCellIds
        /\ nbDoc[i].stableId # None =>
              /\ gm.cell_sources[nbDoc[i].stableId] = NoSource
              /\ ~InGraph(gm.graph, nbDoc[i].stableId)

\* C30: every code cell of the notebook goes by its stableId everywhere:
\* the view registers it under that id, the graph manager tracks it under
\* that id, and by that id the diagnostics find the URI of its document and
\* its display name.
C30_OneCellId ==
    /\ app.loaded =>
          ViewCellIds \subseteq
             {nbDoc[i].stableId :
                 i \in {i \in 1..Len(nbDoc) : nbDoc[i].kind = "Code"}}
    /\ \A i \in 1..Len(nbDoc) :
          (nbDoc[i].kind = "Code" /\ nbDoc[i].stableId # None) =>
             /\ gm.cell_sources[nbDoc[i].stableId] = nbDoc[i].source
             /\ CellUriOf(nbDoc[i].stableId, Documents(nbDoc))
                   = nbDoc[i].document
             /\ get_cell_display_name(nbDoc[i].stableId, Documents(nbDoc))
                   = DisplayName(i)

\* ------------------------------------------------------- lifecycle claims
NotebookHandlers == {"did_open", "did_change", "did_save"}
\* The handler that has just returned performed the primitive operation.
Performed(name) == \E i \in 1..Len(lastOps) : lastOps[i][1] = name

\* C31: sessions are created lazily: didOpen, didChange and didSave create
\* no session and spawn no kernel, they only refresh the view of the session
\* that exists; a notebook gets a session and a kernel through run only.
C31_LazySessions ==
    [][/\ lastCall'.name \in NotebookHandlers =>
             /\ sessions' = sessions /\ instantiated' = instantiated
             /\ nextId' = nextId /\ sess' = sess /\ proc' = proc
             /\ control' = control
             /\ lastOps' = IF DictGet(sessions, lastCall'.uri) # 0
                           THEN << <<"sync", DictGet(sessions, lastCall'.uri)>> >>
                           ELSE <<>>
       /\ \A uri \in URIs :
             (DictGet(sessions', uri) # 0
                 /\ DictGet(sessions', uri) # DictGet(sessions, uri))
                => lastCall'.name = "run" /\ lastCall'.uri = uri
       /\ nextId' # nextId => lastCall'.name = "run"]_vars

\* didChange has refreshed the view of a session that run created.
C31_Witness ==
    /\ lastCall.name = "did_change"
    /\ DictGet(sessions, lastCall.uri) # 0
    /\ lastOps = << <<"sync", DictGet(sessions, lastCall.uri)>> >>

C33_InstantiatedMeansRegistered ==
    /\ \A uri \in URIs :
          LET s == DictGet(sessions, uri)
          IN  /\ is_instantiated(Heap, uri) =>
                    s # 0 /\ ~sess[s].closed /\ sess[s].instantiations = 1
              /\ s = 0 => instantiated[uri] = "absent"
    /\ \A s \in Ids : sess[s].constructed => sess[s].instantiations <= 1

\* The session of a notebook was recreated for another interpreter: the old
\* one is closed, and the new one has been instantiated in its own right.
C33_Witness ==
    \E uri \in URIs : \E s \in SessionsOf(uri) :
        /\ sess[s].closed /\ sess[s].instantiations = 1
        /\ DictGet(sessions, uri) \notin {0, s}
        /\ sess[DictGet(sessions, uri)].instantiations = 1
        /\ is_instantiated(Heap, uri)

\* The sessions on which the handler that has just returned called close(),
\* in the order of the calls.
ClosedInOrder ==
    LET closes == SelectSeq(lastOps, LAMBDA op : op[1] = "close")
    IN  [i \in 1..Len(closes) |-> closes[i][2]]

\* C34: shutdown() calls close on every registered session in insertion
\* order, also when close() of some of them raises; it does not raise, and
\* afterwards the registry holds no session and no instantiated flag.
C34_ShutdownClosesAll ==
    [][lastCall'.name = "shutdown" =>
          /\ ~lastCall'.raised
          /\ ClosedInOrder' = [i \in 1..Len(sessions) |-> sessions[i].sid]
          /\ \A i \in 1..Len(sessions) : sess'[sessions[i].sid].closed
          /\ sessions' = <<>>
          /\ \A uri \in URIs : instantiated'[uri] = "absent"]_vars

\* shutdown has closed two sessions, and close() of the first one raised.
C34_Witness ==
    /\ lastCall.name = "shutdown"
    /\ Len(ClosedInOrder) = 2
    /\ \E i, j \in 1..Len(lastOps) :
          /\ i < j
          /\ lastOps[i] = <<"log_exception", ClosedInOrder[1]>>
          /\ lastOps[j] = <<"close", ClosedInOrder[2]>>

\* The positions in lastOps of the primitive operation.
OpsNamed(name) == {i \in 1..Len(lastOps) : lastOps[i][1] = name}

\* C35: when the kernel launch fails while create_session constructs the
\* session, the error reaches the caller, the launch was attempted once,
\* and afterwards no session is registered for the notebook and its
\* instantiated flag is unset; the session registered before was closed
\* before the attempt.
C35_FailedLaunchLeavesNothing ==
    [][(lastCall'.name = "run" /\ Performed("launch")') =>
          LET uri == lastCall'.uri
              old == DictGet(sessions, uri)
          IN  /\ Cardinality(OpsNamed("launch")') = 1
              /\ proc'[nextId'].state # "running" => lastCall'.raised
              /\ lastCall'.raised =>
                    /\ DictGet(sessions', uri) = 0
                    /\ instantiated'[uri] = "absent"
                    /\ ~sess'[nextId'].constructed
                    /\ ~Performed("insert")' /\ ~Performed("instantiate")'
                    /\ old # 0 =>
                          /\ sess'[old].closed
                          /\ \A i \in OpsNamed("close")', j \in OpsNamed("launch")' :
                                i < j]_vars

\* A run for another interpreter has failed to launch its kernel after it
\* had closed the session of the notebook.
C35_Witness ==
    /\ lastCall.name = "run" /\ lastCall.raised
    /\ Performed("close") /\ Performed("launch")
    /\ DictGet(sessions, lastCall.uri) = 0
    /\ \E s \in SessionsOf(lastCall.uri) : sess[s].closed

\* C36: no transport outlives a failed session creation: when the kernel
\* launch has failed, the queue manager created for that attempt is closed
\* by the time the error has reached the caller.
C36_FailedLaunchClosesTransport ==
    \A s \in Ids :
        (sess[s].queuesCreated /\ ~sess[s].constructed) => sess[s].queuesClosed

\* C37: once close() has returned on a session, its listener thread passes
\* no further message to the session's consumer.
C37_NoNotifyAfterClose ==
    [][\A s \in Ids : sess[s].closed => delivered'[s] = delivered[s]]_vars

\* C38: an open or a text update for a cell document URI that has no
\* URI-to-CellId mapping is skipped: sources, compiled artefacts, graph,
\* stale flag and cached diagnostics (and the mapping) keep their values.
C38_UnmappedUpdateSkipped ==
    [][(gmCall'.name = "update_cell_document"
          /\ ~CacheHas(gm.uri_to_cell_id_cache, gmCall'.cell)) => gm' = gm]_vars

\* An update for an unmapped URI has just been skipped while the manager
\* tracks a cell, is clean and holds cached diagnostics.
C38_Witness ==
    /\ gmCall.name = "update_cell_document"
    /\ gmCall.source \notin {NoSource, SrcBad}
    /\ ~CacheHas(gm.uri_to_cell_id_cache, gmCall.cell)
    /\ \E c \in CellIds : Tracked(c)
    /\ ~gm.stale
    /\ gm.cached_diagnostics.filled

ResponsesTo(session_id, n) ==
    SelectSeq(SubSeq(dap.out, 1, n),
              LAMBDA o : o.sessionId = session_id /\ o.message.type = "response")

RequestsOf(session_id) ==
    SelectSeq(dap.requests, LAMBDA r : r.sessionId = session_id)

InitializedEventsTo(session_id, n) ==
    SelectSeq(SubSeq(dap.out, 1, n),
              LAMBDA o : o.sessionId = session_id
                             /\ o.message = DapEvent("initialized"))

InitializeSuccessesTo(session_id, n) ==
    SelectSeq(SubSeq(dap.out, 1, n),
              LAMBDA o : o.sessionId = session_id
                             /\ o.message = create_success_response("initialize"))

\* C40: every DAP request given to handle_debug_adapter_request, whatever
\* its command and whether or not a notebook session or a debug session
\* exists, is answered by exactly one marimo/dap response notification for
\* its sessionId (the handler does not suspend before it has answered, so
\* responses and requests are level in every state); an `initialized` event
\* is notified only for an initialize request whose response reported
\* success, and only after that response.
C40_OneResponsePerRequest ==
    \A session_id \in DapSessionIds :
        /\ Len(ResponsesTo(session_id, Len(dap.out)))
               = Len(RequestsOf(session_id))
        /\ \A n \in 1..Len(dap.out) :
               Len(InitializedEventsTo(session_id, n))
                   <= Len(InitializeSuccessesTo(session_id, n - 1))

====
